---- MODULE Spec2Model ----
(***************************************************************************)
(* Opportunity scoring engine of the Amazon private-label analyser:        *)
(* the rule evaluators (src/analyzers) and the ScoringEngine               *)
(* (src/decision/scoring.py).                                              *)
(*                                                                         *)
(* Numbers.  The Python code computes in binary floating point; the model  *)
(* computes the same expressions in exact rational arithmetic.  A rational *)
(* is a record [n |-> numerator, d |-> denominator] in lowest terms with   *)
(* d > 0.  An optional value (Optional[...] in the source) is NoneVal or   *)
(* Some(v).  A call that raises yields Raise(error) instead of a result.   *)
(***************************************************************************)
EXTENDS Integers, Sequences, FiniteSets

VARIABLES
    settings,               \* core/config.py: the Settings singleton
    price_analyzer,         \* PriceBarrierAnalyzer instance
    brand_analyzer,         \* BrandDominanceAnalyzer instance
    keyword_analyzer,       \* KeywordVolumeAnalyzer instance
    triangulation_analyzer, \* TriangulationAnalyzer instance
    h10_client,             \* Helium 10 collaborator: NoneVal, or Some(its answers)
    ss_client,              \* SellerSprite collaborator: NoneVal, or Some(its answers)
    products,               \* the products handed to the price analyzer, in order
    price_results,          \* results of PriceBarrierAnalyzer.analyze, oldest first
    brand_result,           \* result of BrandDominanceAnalyzer.analyze, NoneVal before
    keyword_result,         \* result of KeywordVolumeAnalyzer.analyze, NoneVal before
    triangulation_result,   \* TriangulationAnalyzer.analyze at its return, NoneVal before
    request,                \* arguments of the call under way (analyze_product,
                            \* ACoSDecisionTree.evaluate, analyze_stock_situation)
    assessment,             \* its ProductAnalysisResult, NoneVal before the call
    earlier,                \* the results of the calls before the latest, oldest first
    clock,                  \* what datetime.now() answers next
    acos_decision,          \* ACoSDecision of ACoSDecisionTree.evaluate, NoneVal before
    stock_analysis          \* StockAnalysis of analyze_stock_situation, NoneVal before

vars == <<settings, price_analyzer, brand_analyzer, keyword_analyzer,
          triangulation_analyzer, h10_client, ss_client, products,
          price_results, brand_result, keyword_result, triangulation_result,
          request, assessment, earlier, clock, acos_decision,
          stock_analysis>>

----------------------------------------------------------------------------
(* Exact rational arithmetic *)

Abs(x) == IF x < 0 THEN -x ELSE x

RECURSIVE GCD(_, _)
GCD(a, b) == IF b = 0 THEN a ELSE GCD(b, a % b)

Rat(n, d) ==
    LET g == GCD(Abs(n), Abs(d))
        s == IF d < 0 THEN -1 ELSE 1
    IN  [n |-> (s * n) \div g, d |-> (s * d) \div g]

RInt(k) == [n |-> k, d |-> 1]

RAdd(a, b) == Rat(a.n * b.d + b.n * a.d, a.d * b.d)

RSub(a, b) == Rat(a.n * b.d - b.n * a.d, a.d * b.d)

RMul(a, b) == Rat(a.n * b.n, a.d * b.d)

\* defined only for b # 0; callers model Python's ZeroDivisionError themselves
RDiv(a, b) == Rat(a.n * b.d, a.d * b.n)

RLt(a, b) == a.n * b.d < b.n * a.d

RLe(a, b) == a.n * b.d <= b.n * a.d

RGe(a, b) == RLe(b, a)

RIsZero(a) == a.n = 0

RMin(a, b) == IF RLe(a, b) THEN a ELSE b

RMax(a, b) == IF RLe(a, b) THEN b ELSE a

----------------------------------------------------------------------------
(* Optional values and raised exceptions *)

NoneVal == [some |-> FALSE]

Some(v) == [some |-> TRUE, v |-> v]

\* Python's `a or b` for an Optional[float] a: None and 0.0 are both falsy
PyOrNum(a, b) == IF a.some /\ ~RIsZero(a.v) THEN a.v ELSE b

Raise(e) == [raised |-> TRUE, error |-> e]

----------------------------------------------------------------------------
(* core/models.py *)

RED == "RED"

YELLOW == "YELLOW"

GREEN == "GREEN"

Marketplace == {"US", "UK", "DE", "FR", "IT", "ES", "CA", "JP"}

\* AnalysisRule: the fields the engine reads, plus the metadata entries the
\* evaluator fills in
AnalysisRule(name, st, sc, thr, act, meta) ==
    [raised |-> FALSE, rule_name |-> name, status |-> st, score |-> sc,
     threshold_value |-> thr, actual_value |-> act, metadata |-> meta]

----------------------------------------------------------------------------
(* analyzers/price_barrier.py *)

\* PriceBarrierAnalyzer.__init__: an explicit floor wins unless it is falsy
PriceBarrierAnalyzerInit(min_price_usd, min_price_eur, cfg) ==
    [min_price_usd |-> PyOrNum(min_price_usd, cfg.price_barrier_usd),
     min_price_eur |-> PyOrNum(min_price_eur, cfg.price_barrier_eur)]

\* mutant of PriceThreshold: the United Kingdom is counted with the dollar zone
PriceThreshold_PoundWithDollar(self, marketplace) ==
    IF marketplace \in {"US", "CA", "UK"}
    THEN [threshold |-> self.min_price_usd, currency |-> "USD"]
    ELSE [threshold |-> self.min_price_eur, currency |-> "EUR"]

\* the marketplace test of analyze: US and CA use the USD floor
PriceThreshold(self, marketplace) ==
    IF marketplace \in {"US", "CA"}
    THEN [threshold |-> self.min_price_usd, currency |-> "USD"]
    ELSE [threshold |-> self.min_price_eur, currency |-> "EUR"]

\* mutant of PriceBand: the YELLOW band takes price = threshold (<= for <)
PriceBand_InclusiveFloor(price, threshold) ==
    IF RLt(price, RMul(threshold, Rat(7, 10)))
    THEN [raised |-> FALSE, score |-> RInt(0), status |-> RED]
    ELSE IF RLe(price, threshold)
    THEN IF RIsZero(threshold) THEN Raise("ZeroDivisionError")
         ELSE [raised |-> FALSE,
               score |-> RMul(RDiv(price, threshold), RInt(50)),
               status |-> YELLOW]
    ELSE IF RLt(price, RMul(threshold, Rat(3, 2)))
    THEN [raised |-> FALSE,
          score |-> RAdd(RInt(50),
                         RMul(RDiv(RSub(price, threshold),
                                   RMul(threshold, Rat(1, 2))),
                              RInt(30))),
          status |-> GREEN]
    ELSE IF RIsZero(threshold) THEN Raise("ZeroDivisionError")
         ELSE [raised |-> FALSE,
               score |-> RMin(RInt(100),
                              RAdd(RInt(80),
                                   RMul(RDiv(RSub(price,
                                                  RMul(threshold, Rat(3, 2))),
                                             threshold),
                                        RInt(20)))),
               status |-> GREEN]

\* the if/elif chain of analyze: score and status, or the ZeroDivisionError
\* of a division by a zero threshold
PriceBand(price, threshold) ==
    IF RLt(price, RMul(threshold, Rat(7, 10)))
    THEN [raised |-> FALSE, score |-> RInt(0), status |-> RED]
    ELSE IF RLt(price, threshold)
    THEN IF RIsZero(threshold) THEN Raise("ZeroDivisionError")
         ELSE [raised |-> FALSE,
               score |-> RMul(RDiv(price, threshold), RInt(50)),
               status |-> YELLOW]
    ELSE IF RLt(price, RMul(threshold, Rat(3, 2)))
    THEN IF RIsZero(RMul(threshold, Rat(1, 2))) THEN Raise("ZeroDivisionError")
         ELSE [raised |-> FALSE,
               score |-> RAdd(RInt(50),
                              RMul(RDiv(RSub(price, threshold),
                                        RMul(threshold, Rat(1, 2))),
                                   RInt(30))),
               status |-> GREEN]
    ELSE IF RIsZero(threshold) THEN Raise("ZeroDivisionError")
         ELSE [raised |-> FALSE,
               score |-> RMin(RInt(100),
                              RAdd(RInt(80),
                                   RMul(RDiv(RSub(price,
                                                  RMul(threshold, Rat(3, 2))),
                                             threshold),
                                        RInt(20)))),
               status |-> GREEN]

\* metadata["price_to_threshold_ratio"]
PriceRatio(price, threshold) ==
    IF RLt(RInt(0), threshold) THEN RDiv(price, threshold) ELSE RInt(0)

\* PriceBarrierAnalyzer.analyze
PriceBarrierAnalyze(self, product) ==
    LET t    == PriceThreshold(self, product.marketplace)
        band == PriceBand(product.price, t.threshold)
    IN  IF band.raised THEN band
        ELSE AnalysisRule("price_barrier", band.status, band.score,
                          t.threshold, product.price,
                          [currency |-> t.currency,
                           marketplace |-> product.marketplace,
                           price_to_threshold_ratio |->
                               PriceRatio(product.price, t.threshold)])


----------------------------------------------------------------------------
(* Strings.  A string is a sequence of one-character strings, so that      *)
(* str.lower() and the substring test `in` are computed, not assumed.      *)

UpperCase == <<"A", "B", "C", "D", "E", "F", "G", "H", "I", "J", "K", "L", "M",
               "N", "O", "P", "Q", "R", "S", "T", "U", "V", "W", "X", "Y", "Z">>

LowerCase == <<"a", "b", "c", "d", "e", "f", "g", "h", "i", "j", "k", "l", "m",
               "n", "o", "p", "q", "r", "s", "t", "u", "v", "w", "x", "y", "z">>

LowerChar(c) ==
    IF \E i \in 1 .. Len(UpperCase) : UpperCase[i] = c
    THEN LowerCase[CHOOSE i \in 1 .. Len(UpperCase) : UpperCase[i] = c]
    ELSE c

\* str.lower()
StrLower(str) == [i \in 1 .. Len(str) |-> LowerChar(str[i])]

\* sub in str
StrContains(str, sub) ==
    \E i \in 0 .. (Len(str) - Len(sub)) : SubSeq(str, i + 1, i + Len(sub)) = sub

\* one key of a dict answered by a collaborator (the "brand" of a competitor
\* record, the "search_volume" of get_keyword_data): the key is missing, or
\* present with an Optional value (None included)
NoKey == [has |-> FALSE]

Entry(val) == [has |-> TRUE, val |-> val]

\* dict.get(key, default)
DictGet(entry, default) == IF entry.has THEN entry.val ELSE default

\* competitors[:k]
Take(seq, k) == SubSeq(seq, 1, IF Len(seq) < k THEN Len(seq) ELSE k)

----------------------------------------------------------------------------
(* analyzers/brand_dominance.py *)

\* BrandDominanceAnalyzer.__init__
BrandDominanceAnalyzerInit(dominance_threshold, cfg) ==
    [dominance_threshold |->
        PyOrNum(dominance_threshold, cfg.brand_dominance_threshold)]

AmazonAliases ==
    {<<"b", "a", "s", "i", "c", "s">>,
     <<"e", "s", "s", "e", "n", "t", "i", "a", "l", "s">>,
     <<"s", "o", "l", "i", "m", "o">>}

\* the test of one lower-cased brand inside the loop over competitors[:3]
IsAmazonBrand(brand) ==
    \/ StrContains(brand, <<"a", "m", "a", "z", "o", "n">>)
    \/ brand \in AmazonAliases

\* mutant of AmazonScanDepth: the loop looks at competitors[:4]
AmazonScanDepth_Top4(competitors) == Take(competitors, 4)

\* how many leading competitors the platform-brand loop looks at
AmazonScanDepth(competitors) == Take(competitors, 3)

\* the loop over competitors[:3]: "raised" when comp.get("brand", "") is None
\* (None has no lower()), "detected" at the first match (break), else "clear"
RECURSIVE AmazonScan(_)
AmazonScan(comps) ==
    IF comps = <<>> THEN "clear"
    ELSE LET b == DictGet(Head(comps), Some(<<>>))
         IN  IF ~b.some THEN "raised"
             ELSE IF IsAmazonBrand(StrLower(b.v)) THEN "detected"
             ELSE AmazonScan(Tail(comps))

\* share of the first competitor's brand among competitors[:10]
TopBrandShare(competitors) ==
    LET top10     == Take(competitors, 10)
        top_brand == DictGet(competitors[1], NoneVal)
        same      == {i \in 1 .. Len(top10) :
                         DictGet(top10[i], NoneVal) = top_brand}
    IN  Rat(Cardinality(same), Len(top10))

\* dominance_score = click_concentration or top_brand_share or 0.0
DominanceScore(click_concentration, top_brand_share) ==
    PyOrNum(click_concentration, PyOrNum(top_brand_share, RInt(0)))

\* mutant of DominanceBand: the 0.40 band is tested before dominance_threshold
DominanceBand_Reordered(self, amazon_detected, dominance_score) ==
    IF amazon_detected THEN [score |-> RInt(0), status |-> RED]
    ELSE IF RGe(dominance_score, Rat(70, 100))
    THEN [score |-> RInt(10), status |-> RED]
    ELSE IF RGe(dominance_score, Rat(40, 100))
    THEN [score |-> RInt(60), status |-> YELLOW]
    ELSE IF RGe(dominance_score, self.dominance_threshold)
    THEN [score |-> RInt(30), status |-> YELLOW]
    ELSE [score |-> RInt(90), status |-> GREEN]

\* the scoring chain of analyze
DominanceBand(self, amazon_detected, dominance_score) ==
    IF amazon_detected THEN [score |-> RInt(0), status |-> RED]
    ELSE IF RGe(dominance_score, Rat(70, 100))
    THEN [score |-> RInt(10), status |-> RED]
    ELSE IF RGe(dominance_score, self.dominance_threshold)
    THEN [score |-> RInt(30), status |-> YELLOW]
    ELSE IF RGe(dominance_score, Rat(40, 100))
    THEN [score |-> RInt(60), status |-> YELLOW]
    ELSE [score |-> RInt(90), status |-> GREEN]

\* BrandDominanceAnalyzer.analyze; ss is the SellerSprite collaborator
\* (NoneVal when the engine has none) with its answers
BrandDominanceAnalyze(self, ss) ==
    LET click == IF ss.some THEN ss.v.click_concentration ELSE NoneVal
        comps == IF ss.some THEN ss.v.competitors ELSE NoneVal
        \* `if competitors:` is false for None and for the empty list
        have  == comps.some /\ comps.v # <<>>
        scan  == IF have THEN AmazonScan(AmazonScanDepth(comps.v)) ELSE "clear"
        share == IF have THEN Some(TopBrandShare(comps.v)) ELSE NoneVal
        d     == DominanceScore(click, share)
        band  == DominanceBand(self, scan = "detected", d)
    IN  IF scan = "raised" THEN Raise("AttributeError")
        ELSE AnalysisRule("brand_dominance", band.status, band.score,
                          self.dominance_threshold, d,
                          [click_concentration |-> click,
                           amazon_detected |-> (scan = "detected"),
                           top_brand_share |-> share])

----------------------------------------------------------------------------
(* analyzers/keyword_volume.py *)

\* Python's `a or b` for an Optional[int]
PyOrInt(a, b) == IF a.some /\ a.v # 0 THEN a.v ELSE b

\* KeywordVolumeAnalyzer.__init__
KeywordVolumeAnalyzerInit(min_volume, cfg) ==
    [min_volume |-> PyOrInt(min_volume, cfg.min_keyword_volume)]

\* mutant of VolumeBand: the band from 2m starts at 70 (for 80)
VolumeBand_LowThirdBand(v, m) ==
    IF RLt(v, RMul(m, Rat(3, 10)))
    THEN [raised |-> FALSE, score |-> RInt(0), status |-> RED]
    ELSE IF RLt(v, m)
    THEN IF RIsZero(m) THEN Raise("ZeroDivisionError")
         ELSE [raised |-> FALSE, score |-> RMul(RDiv(v, m), RInt(50)),
               status |-> YELLOW]
    ELSE IF RLt(v, RMul(m, RInt(2)))
    THEN IF RIsZero(m) THEN Raise("ZeroDivisionError")
         ELSE [raised |-> FALSE,
               score |-> RAdd(RInt(50),
                              RMul(RDiv(RSub(v, m), m), RInt(30))),
               status |-> GREEN]
    ELSE IF RLt(v, RMul(m, RInt(5)))
    THEN IF RIsZero(m) THEN Raise("ZeroDivisionError")
         ELSE [raised |-> FALSE,
               score |-> RAdd(RInt(70),
                              RMin(RInt(15),
                                   RMul(RDiv(RSub(v, RMul(m, RInt(2))),
                                             RMul(m, RInt(3))),
                                        RInt(15)))),
               status |-> GREEN]
    ELSE [raised |-> FALSE, score |-> RInt(90), status |-> GREEN]

\* mutant of VolumeBand: a volume equal to the minimum still counts as below it
VolumeBand_InclusiveMinimum(v, m) ==
    IF RLt(v, RMul(m, Rat(3, 10)))
    THEN [raised |-> FALSE, score |-> RInt(0), status |-> RED]
    ELSE IF RLe(v, m)
    THEN IF RIsZero(m) THEN Raise("ZeroDivisionError")
         ELSE [raised |-> FALSE, score |-> RMul(RDiv(v, m), RInt(50)),
               status |-> YELLOW]
    ELSE IF RLt(v, RMul(m, RInt(2)))
    THEN [raised |-> FALSE,
          score |-> RAdd(RInt(50), RMul(RDiv(RSub(v, m), m), RInt(30))),
          status |-> GREEN]
    ELSE IF RLt(v, RMul(m, RInt(5)))
    THEN [raised |-> FALSE,
          score |-> RAdd(RInt(80),
                         RMin(RInt(15),
                              RMul(RDiv(RSub(v, RMul(m, RInt(2))),
                                        RMul(m, RInt(3))),
                                   RInt(15)))),
          status |-> GREEN]
    ELSE [raised |-> FALSE, score |-> RInt(90), status |-> GREEN]

\* the if/elif chain of analyze on volume v and minimum m
VolumeBand(v, m) ==
    IF RLt(v, RMul(m, Rat(3, 10)))
    THEN [raised |-> FALSE, score |-> RInt(0), status |-> RED]
    ELSE IF RLt(v, m)
    THEN IF RIsZero(m) THEN Raise("ZeroDivisionError")
         ELSE [raised |-> FALSE, score |-> RMul(RDiv(v, m), RInt(50)),
               status |-> YELLOW]
    ELSE IF RLt(v, RMul(m, RInt(2)))
    THEN IF RIsZero(m) THEN Raise("ZeroDivisionError")
         ELSE [raised |-> FALSE,
               score |-> RAdd(RInt(50),
                              RMul(RDiv(RSub(v, m), m), RInt(30))),
               status |-> GREEN]
    ELSE IF RLt(v, RMul(m, RInt(5)))
    THEN IF RIsZero(m) THEN Raise("ZeroDivisionError")
         ELSE [raised |-> FALSE,
               score |-> RAdd(RInt(80),
                              RMin(RInt(15),
                                   RMul(RDiv(RSub(v, RMul(m, RInt(2))),
                                             RMul(m, RInt(3))),
                                        RInt(15)))),
               status |-> GREEN]
    ELSE [raised |-> FALSE, score |-> RInt(90), status |-> GREEN]

\* KeywordVolumeAnalyzer.analyze; keyword_data.exact_search_volume is an int
KeywordVolumeAnalyze(self, keyword_data) ==
    LET v    == RInt(keyword_data.exact_search_volume)
        m    == RInt(self.min_volume)
        band == VolumeBand(v, m)
    IN  IF band.raised THEN band
        ELSE AnalysisRule("keyword_volume", band.status, band.score, m, v,
                          [volume_ratio |->
                              IF self.min_volume > 0 THEN RDiv(v, m)
                              ELSE RInt(0)])

----------------------------------------------------------------------------
(* analyzers/triangulation.py *)

RECURSIVE SeqSum(_)
SeqSum(seq) == IF seq = <<>> THEN 0 ELSE Head(seq) + SeqSum(Tail(seq))

SeqMax(seq) == CHOOSE x \in {seq[i] : i \in 1 .. Len(seq)} :
                  \A j \in 1 .. Len(seq) : seq[j] <= x

SeqMin(seq) == CHOOSE x \in {seq[i] : i \in 1 .. Len(seq)} :
                  \A j \in 1 .. Len(seq) : x <= seq[j]

\* statistics.mean of a non-empty list of ints
Mean(seq) == Rat(SeqSum(seq), Len(seq))

\* the estimates an `if value:` test keeps: neither None nor 0
Truthy(opts) ==
    LET keep == {i \in 1 .. Len(opts) : opts[i].some /\ opts[i].v # 0}
        F[i \in 0 .. Len(opts)] ==
            IF i = 0 THEN <<>>
            ELSE IF i \in keep THEN Append(F[i - 1], opts[i].v) ELSE F[i - 1]
    IN  F[Len(opts)]

\* the tail of _triangulate_sales and _triangulate_keyword_volume
Triangulate(values) ==
    IF values = <<>>
    THEN [source_count |-> 0, variance_pct |-> RInt(0)]
    ELSE LET mean_val == Mean(values)
         IN  [source_count |-> Len(values),
              variance_pct |->
                  IF RLt(RInt(0), mean_val)
                  THEN RDiv(RInt(SeqMax(values) - SeqMin(values)), mean_val)
                  ELSE RInt(0)]

\* _triangulate_sales: Helium 10, SellerSprite and Keepa estimates on the product
TriangulateSales(product) ==
    Triangulate(Truthy(<<product.h10_monthly_sales, product.ss_monthly_sales,
                         product.keepa_bsr_drops_30d>>))

\* h10_data.get("search_volume") on the answer of get_keyword_data
H10SearchVolume(h10) ==
    IF h10.some /\ h10.v.search_volume.has THEN h10.v.search_volume.val
    ELSE NoneVal

\* _triangulate_keyword_volume
TriangulateKeywordVolume(h10, ss) ==
    Triangulate(Truthy(<<H10SearchVolume(h10),
                         IF ss.some THEN ss.v.search_volume ELSE NoneVal>>))

\* mutant of Confidence: a quantity nobody estimated counts as agreed
Confidence_NoSourceFull(data, variance_threshold) ==
    IF data.source_count >= 2
    THEN IF RLe(data.variance_pct, variance_threshold) THEN <<100>>
         ELSE IF RLe(data.variance_pct, RMul(variance_threshold, RInt(2)))
         THEN <<70>>
         ELSE <<30>>
    ELSE IF data.source_count = 1 THEN <<50>>
    ELSE <<100>>

\* one quantity's contribution to confidence_scores (empty when no source)
Confidence(data, variance_threshold) ==
    IF data.source_count >= 2
    THEN IF RLe(data.variance_pct, variance_threshold) THEN <<100>>
         ELSE IF RLe(data.variance_pct, RMul(variance_threshold, RInt(2)))
         THEN <<70>>
         ELSE <<30>>
    ELSE IF data.source_count = 1 THEN <<50>>
    ELSE <<>>

\* _assess_competition_level
AssessCompetitionLevel(td, cc) ==
    LET tds == IF ~td.some THEN <<>>
               ELSE IF RLt(td.v, RInt(5)) THEN <<1>>
               ELSE IF RLt(td.v, RInt(7)) THEN <<2>> ELSE <<3>>
        ccs == IF ~cc.some THEN <<>>
               ELSE IF RLt(cc.v, Rat(4, 10)) THEN <<1>>
               ELSE IF RLt(cc.v, Rat(6, 10)) THEN <<2>> ELSE <<3>>
        scores == tds \o ccs
    IN  IF scores = <<>> THEN "unknown"
        ELSE IF RLt(Mean(scores), Rat(3, 2)) THEN "low"
        ELSE IF RLt(Mean(scores), Rat(5, 2)) THEN "medium"
        ELSE "high"

\* _triangulate_competition
TriangulateCompetition(h10, ss) ==
    AssessCompetitionLevel(IF h10.some THEN h10.v.title_density ELSE NoneVal,
                           IF ss.some THEN ss.v.click_concentration ELSE NoneVal)

\* one quantity's contribution to issues: nothing when the sources agree or
\* when there is no source at all
Issues(data, variance_threshold, quantity) ==
    IF data.source_count >= 2
    THEN IF RLe(data.variance_pct, variance_threshold) THEN <<>>
         ELSE IF RLe(data.variance_pct, RMul(variance_threshold, RInt(2)))
         THEN <<[quantity |-> quantity, issue |-> "moderate variance"]>>
         ELSE <<[quantity |-> quantity, issue |-> "high variance"]>>
    ELSE IF data.source_count = 1
    THEN <<[quantity |-> quantity, issue |-> "only one data source"]>>
    ELSE <<>>

\* TriangulationAnalyzer.__init__: the engine passes no variance_threshold
TriangulationAnalyzerInit == [variance_threshold |-> Rat(30, 100)]

\* TriangulationAnalyzer.__init__ with an explicit variance_threshold
TriangulationAnalyzerInitWith(variance_threshold) ==
    [variance_threshold |-> variance_threshold]

\* confidence_scores of analyze when it returns: sales first, then volume
ConfidenceScores(self, product, h10, ss) ==
    Confidence(TriangulateSales(product), self.variance_threshold)
      \o Confidence(TriangulateKeywordVolume(h10, ss), self.variance_threshold)

\* mutant of TriangulationAnalyze: a market assessed as highly competitive
\* takes 20 points off the confidence
TriangulationAnalyze_CompetitionPenalty(self, product, h10, ss) ==
    LET sales_data  == TriangulateSales(product)
        volume_data == TriangulateKeywordVolume(h10, ss)
        confidence_scores == ConfidenceScores(self, product, h10, ss)
        competition == TriangulateCompetition(h10, ss)
        mean_confidence ==
            IF confidence_scores # <<>> THEN Mean(confidence_scores) ELSE RInt(0)
        overall_confidence ==
            IF competition = "high"
            THEN RMax(RInt(0), RSub(mean_confidence, RInt(20)))
            ELSE mean_confidence
        status == IF RGe(overall_confidence, RInt(80)) THEN GREEN
                  ELSE IF RGe(overall_confidence, RInt(60)) THEN YELLOW
                  ELSE RED
    IN  AnalysisRule("triangulation", status, overall_confidence,
                     self.variance_threshold,
                     RDiv(overall_confidence, RInt(100)),
                     [sales_triangulation |-> sales_data,
                      volume_triangulation |-> volume_data,
                      competition_level |-> competition,
                      issues |-> Issues(sales_data, self.variance_threshold, "sales")
                                   \o Issues(volume_data, self.variance_threshold,
                                             "keyword volume")])

\* TriangulationAnalyzer.analyze
TriangulationAnalyze(self, product, h10, ss) ==
    LET sales_data  == TriangulateSales(product)
        volume_data == TriangulateKeywordVolume(h10, ss)
        confidence_scores == ConfidenceScores(self, product, h10, ss)
        overall_confidence ==
            IF confidence_scores # <<>> THEN Mean(confidence_scores) ELSE RInt(0)
        status == IF RGe(overall_confidence, RInt(80)) THEN GREEN
                  ELSE IF RGe(overall_confidence, RInt(60)) THEN YELLOW
                  ELSE RED
    IN  AnalysisRule("triangulation", status, overall_confidence,
                     self.variance_threshold,
                     RDiv(overall_confidence, RInt(100)),
                     [sales_triangulation |-> sales_data,
                      volume_triangulation |-> volume_data,
                      competition_level |-> TriangulateCompetition(h10, ss),
                      issues |-> Issues(sales_data, self.variance_threshold, "sales")
                                   \o Issues(volume_data, self.variance_threshold,
                                             "keyword volume")])

----------------------------------------------------------------------------
(* core/config.py *)

\* Settings.__init__ with no environment variable set
DefaultSettings ==
    [price_barrier_usd |-> RInt(39),
     price_barrier_eur |-> RInt(39),
     brand_dominance_threshold |-> Rat(50, 100),
     min_keyword_volume |-> 3000,
     weight_price_barrier |-> Rat(25, 100),
     weight_brand_dominance |-> Rat(25, 100),
     weight_keyword_volume |-> Rat(20, 100),
     weight_review_velocity |-> Rat(10, 100),
     weight_title_density |-> Rat(10, 100),
     weight_triangulation |-> Rat(10, 100),
     green_threshold |-> RInt(70),
     yellow_threshold |-> RInt(40)]

\* Settings.__init__ reads each tunable from the environment with float()
\* or int() and validates none of them: env overrides the named fields
SettingsInit(env) ==
    [f \in DOMAIN DefaultSettings |->
        IF f \in DOMAIN env THEN env[f] ELSE DefaultSettings[f]]

----------------------------------------------------------------------------
(* decision/scoring.py *)

\* KeywordData(keyword=..., exact_search_volume=volume): pydantic rejects None
KeywordData(volume) ==
    IF volume.some THEN [raised |-> FALSE, exact_search_volume |-> volume.v]
    ELSE Raise("ValidationError")

\* ScoringEngine._fetch_keyword_data
FetchKeywordData(h10, ss) ==
    LET v1 == IF h10.some
              THEN DictGet(h10.v.search_volume, Some(0))
              ELSE Some(0)
        v2 == IF v1 = Some(0) /\ ss.some
              THEN Some(PyOrInt(ss.v.search_volume, 0))
              ELSE v1
    IN  KeywordData(v2)

\* ScoringEngine._analyze_review_velocity
AnalyzeReviewVelocity == NoneVal

\* ScoringEngine._analyze_title_density
AnalyzeTitleDensity(h10) ==
    IF ~h10.some THEN NoneVal
    ELSE IF ~h10.v.title_density.some THEN NoneVal
    ELSE LET density == h10.v.title_density.v
             band == IF RLt(density, RInt(5))
                     THEN [status |-> GREEN, score |-> RInt(100)]
                     ELSE IF RLt(density, RInt(7))
                     THEN [status |-> YELLOW, score |-> RInt(60)]
                     ELSE [status |-> RED, score |-> RInt(20)]
         IN  Some(AnalysisRule("title_density", band.status, band.score,
                               RInt(5), density, <<>>))

\* ScoringEngine._analyze_click_concentration: None on every path
AnalyzeClickConcentration(ss) == NoneVal

\* mutant of CalculateWeightedScore: the sum is divided by the weights of the
\* evaluators that ran
CalculateWeightedScore_Renormalised(cfg, price_check, brand_check, keyword_check, triangulation_check, review_check, title_density_check) ==
    LET base == RAdd(RAdd(RMul(price_check.score, cfg.weight_price_barrier),
                          RMul(brand_check.score, cfg.weight_brand_dominance)),
                     RAdd(RMul(keyword_check.score, cfg.weight_keyword_volume),
                          RMul(triangulation_check.score,
                               cfg.weight_triangulation)))
        weights == RAdd(RAdd(cfg.weight_price_barrier, cfg.weight_brand_dominance),
                        RAdd(cfg.weight_keyword_volume, cfg.weight_triangulation))
        total ==
            IF title_density_check.some
            THEN RAdd(base,
                      RMul(title_density_check.v.score, cfg.weight_title_density))
            ELSE base
        ran ==
            IF title_density_check.some
            THEN RAdd(weights, cfg.weight_title_density)
            ELSE weights
    IN  IF RLt(RInt(0), ran)
        THEN RMin(RInt(100), RMax(RInt(0), RDiv(total, ran)))
        ELSE RInt(0)

\* mutant of CalculateWeightedScore: a skipped title-density evaluator counts
\* with a neutral score of 50
CalculateWeightedScore_Neutral50(cfg, price_check, brand_check, keyword_check, triangulation_check, review_check, title_density_check) ==
    LET base == RAdd(RAdd(RMul(price_check.score, cfg.weight_price_barrier),
                          RMul(brand_check.score, cfg.weight_brand_dominance)),
                     RAdd(RMul(keyword_check.score, cfg.weight_keyword_volume),
                          RMul(triangulation_check.score,
                               cfg.weight_triangulation)))
        with_density ==
            RAdd(base,
                 RMul(IF title_density_check.some
                      THEN title_density_check.v.score ELSE RInt(50),
                      cfg.weight_title_density))
    IN  RMin(RInt(100), RMax(RInt(0), with_density))

\* ScoringEngine._calculate_weighted_score
CalculateWeightedScore(cfg, price_check, brand_check, keyword_check, triangulation_check, review_check, title_density_check) ==
    LET base == RAdd(RAdd(RMul(price_check.score, cfg.weight_price_barrier),
                          RMul(brand_check.score, cfg.weight_brand_dominance)),
                     RAdd(RMul(keyword_check.score, cfg.weight_keyword_volume),
                          RMul(triangulation_check.score,
                               cfg.weight_triangulation)))
        with_review ==
            IF review_check.some
            THEN RAdd(base, RMul(review_check.v.score, cfg.weight_review_velocity))
            ELSE base
        with_density ==
            IF title_density_check.some
            THEN RAdd(with_review,
                      RMul(title_density_check.v.score, cfg.weight_title_density))
            ELSE with_review
    IN  RMin(RInt(100), RMax(RInt(0), with_density))

\* mutant of DetermineFinalDecision: the score bands are tried first and the
\* kill switches only demote a YELLOW
DetermineFinalDecision_ScoreFirst(cfg, overall_score, price_check, brand_check, keyword_check) ==
    IF RGe(overall_score, cfg.green_threshold) THEN GREEN
    ELSE IF price_check.status = RED THEN RED
    ELSE IF brand_check.status = RED THEN RED
    ELSE IF keyword_check.status = RED THEN RED
    ELSE IF RGe(overall_score, cfg.yellow_threshold) THEN YELLOW
    ELSE RED

\* mutant of DetermineFinalDecision: GREEN needs a score strictly above
\* green_threshold
DetermineFinalDecision_StrictGreen(cfg, overall_score, price_check, brand_check, keyword_check) ==
    IF price_check.status = RED THEN RED
    ELSE IF brand_check.status = RED THEN RED
    ELSE IF keyword_check.status = RED THEN RED
    ELSE IF RLt(cfg.green_threshold, overall_score) THEN GREEN
    ELSE IF RGe(overall_score, cfg.yellow_threshold) THEN YELLOW
    ELSE RED

\* ScoringEngine._determine_final_decision
DetermineFinalDecision(cfg, overall_score, price_check, brand_check, keyword_check) ==
    IF price_check.status = RED THEN RED
    ELSE IF brand_check.status = RED THEN RED
    ELSE IF keyword_check.status = RED THEN RED
    ELSE IF RGe(overall_score, cfg.green_threshold) THEN GREEN
    ELSE IF RGe(overall_score, cfg.yellow_threshold) THEN YELLOW
    ELSE RED

\* the rule names, in order, of the checks at the indices in keep
RuleNames(checks, keep) ==
    LET F[i \in 0 .. Len(checks)] ==
            IF i = 0 THEN <<>>
            ELSE IF i \in keep THEN Append(F[i - 1], checks[i].v.rule_name)
            ELSE F[i - 1]
    IN  F[Len(checks)]

\* mutant of IdentifyRiskFactors: the list of risks is kept between calls
IdentifyRiskFactors_KeptBetweenCalls(checks) ==
    (IF assessment.some /\ ~assessment.v.raised
     THEN assessment.v.risk_factors ELSE <<>>)
      \o RuleNames(checks, {i \in 1 .. Len(checks) :
                              checks[i].some /\ checks[i].v.status \in {RED, YELLOW}})

\* ScoringEngine._identify_risk_factors over its Optional checks; each entry
\* "<rule_name>: <reason>" is represented by its rule name
IdentifyRiskFactors(checks) ==
    RuleNames(checks, {i \in 1 .. Len(checks) :
                          checks[i].some /\ checks[i].v.status \in {RED, YELLOW}})

\* ScoringEngine._identify_opportunities
IdentifyOpportunities(checks) ==
    RuleNames(checks, {i \in 1 .. Len(checks) :
                          /\ checks[i].some
                          /\ checks[i].v.status = GREEN
                          /\ RGe(checks[i].v.score, RInt(80))})

\* the rule names, spelled as strings
RuleNameText ==
    [price_barrier |-> <<"p", "r", "i", "c", "e", "_", "b", "a", "r", "r", "i", "e", "r">>,
     brand_dominance |-> <<"b", "r", "a", "n", "d", "_", "d", "o", "m", "i", "n", "a", "n", "c", "e">>,
     keyword_volume |-> <<"k", "e", "y", "w", "o", "r", "d", "_", "v", "o", "l", "u", "m", "e">>,
     triangulation |-> <<"t", "r", "i", "a", "n", "g", "u", "l", "a", "t", "i", "o", "n">>,
     title_density |-> <<"t", "i", "t", "l", "e", "_", "d", "e", "n", "s", "i", "t", "y">>]

\* the text f"{check.rule_name}: {check.reason}" of a risk or opportunity
\* entry, up to the reason: the reasons of the price, volume and
\* triangulation evaluators hold neither "dominance" nor "monopoly", and
\* every entry of the dominance evaluator holds "dominance" in its rule name
EntryText(rule_name) == RuleNameText[rule_name] \o <<":", " ">>

StrMonopoly == <<"m", "o", "n", "o", "p", "o", "l", "y">>

StrDominance == <<"d", "o", "m", "i", "n", "a", "n", "c", "e">>

\* ScoringEngine._generate_recommendation: the verdict of the text and the
\* numbers it quotes
GenerateRecommendation(decision, score, risks, opportunities) ==
    IF decision = RED
    THEN [verdict |-> "REJECT", score |-> score, count |-> Len(risks)]
    ELSE IF decision = YELLOW
    THEN [verdict |-> "CAUTION", score |-> score, count |-> Len(risks)]
    ELSE [verdict |-> "APPROVE", score |-> score, count |-> Len(opportunities)]

RejectSteps ==
    <<"Abandon this product opportunity",
      "Search for alternative products in the niche",
      "Review analysis criteria for learning">>

CautionSteps ==
    <<"Conduct manual review of competitor listings",
      "Analyze negative reviews for differentiation opportunities",
      "Calculate detailed financial projections",
      "Develop unique value proposition">>

VerifyStep == "Verify Amazon's private label presence manually"

ApproveSteps ==
    <<"Source suppliers on Alibaba/1688",
      "Request product samples",
      "Calculate landed costs and margins",
      "Design packaging and branding",
      "Plan product launch strategy",
      "Prepare PPC campaign">>

\* mutant of GenerateNextSteps: every CAUTION gets the verification step
GenerateNextSteps_AlwaysVerify(decision, risks) ==
    IF decision = RED THEN RejectSteps
    ELSE IF decision = YELLOW THEN Append(CautionSteps, VerifyStep)
    ELSE ApproveSteps

\* ScoringEngine._generate_next_steps
GenerateNextSteps(decision, risks) ==
    IF decision = RED THEN RejectSteps
    ELSE IF decision = YELLOW
    THEN IF \E i \in 1 .. Len(risks) :
               \/ StrContains(StrLower(EntryText(risks[i])), StrMonopoly)
               \/ StrContains(StrLower(EntryText(risks[i])), StrDominance)
         THEN Append(CautionSteps, VerifyStep)
         ELSE CautionSteps
    ELSE ApproveSteps

\* mutant of EstimateProfitMargin: a price of zero gets a margin of 0
EstimateProfitMargin_ZeroForUnknown(product) ==
    IF RLt(RInt(0), product.price) THEN Some(RInt(32)) ELSE Some(RInt(0))

\* ScoringEngine._estimate_profit_margin
EstimateProfitMargin(product) ==
    IF RIsZero(product.price) THEN NoneVal
    ELSE LET amazon_fees == RMul(product.price, Rat(35, 100))
             estimated_cogs == RMul(product.price, Rat(33, 100))
             estimated_profit ==
                 RSub(RSub(product.price, amazon_fees), estimated_cogs)
             margin == IF RLt(RInt(0), product.price)
                       THEN RMul(RDiv(estimated_profit, product.price), RInt(100))
                       ELSE RInt(0)
         IN  Some(RMax(RInt(0), RMin(RInt(100), margin)))

\* mutant of VolumeEvaluation: the volume evaluator looks at the price
\* result and does not bother once the price has failed
VolumeEvaluation_ReadsPriceResult(ka, h10, ss, req) ==
    LET keyword_data == IF req.keyword_data.some
                        THEN KeywordData(req.keyword_data)
                        ELSE FetchKeywordData(h10, ss)
    IN  IF keyword_data.raised THEN keyword_data
        ELSE IF \E i \in 1 .. Len(price_results) :
                   ~price_results[i].raised /\ price_results[i].status = RED
        THEN AnalysisRule("keyword_volume", RED, RInt(0), RInt(ka.min_volume),
                          RInt(keyword_data.exact_search_volume),
                          [volume_ratio |-> RInt(0)])
        ELSE KeywordVolumeAnalyze(ka, keyword_data)

\* the volume evaluation of analyze_product: the keyword data is taken from
\* the caller or fetched, then analysed
VolumeEvaluation(ka, h10, ss, req) ==
    LET keyword_data == IF req.keyword_data.some
                        THEN KeywordData(req.keyword_data)
                        ELSE FetchKeywordData(h10, ss)
    IN  IF keyword_data.raised THEN keyword_data
        ELSE KeywordVolumeAnalyze(ka, keyword_data)

\* analyze_product once the four evaluators have returned: the optional
\* checks, the weighted score, the decision and the assessment
Aggregate(cfg, h10, ss, req, now, price_check, brand_check, keyword_check, triangulation_check) ==
    LET review_check == AnalyzeReviewVelocity
        title_density_check == AnalyzeTitleDensity(h10)
        click_concentration_check == AnalyzeClickConcentration(ss)
        overall_score ==
            CalculateWeightedScore(cfg, price_check, brand_check, keyword_check,
                                   triangulation_check, review_check,
                                   title_density_check)
        final_decision ==
            DetermineFinalDecision(cfg, overall_score, price_check,
                                   brand_check, keyword_check)
        risk_factors ==
            IdentifyRiskFactors(<<Some(price_check), Some(brand_check),
                                  Some(keyword_check),
                                  Some(triangulation_check), review_check,
                                  click_concentration_check>>)
        opportunity_factors ==
            IdentifyOpportunities(<<Some(price_check), Some(brand_check),
                                    Some(keyword_check),
                                    title_density_check>>)
    IN  [raised |-> FALSE,
         analyzed_at |-> now,
         marketplace |-> req.product.marketplace,
         final_decision |-> final_decision,
         overall_score |-> overall_score,
         price_barrier_check |-> price_check,
         brand_dominance_check |-> brand_check,
         keyword_volume_check |-> keyword_check,
         review_velocity_check |-> review_check,
         title_density_check |-> title_density_check,
         click_concentration_check |-> click_concentration_check,
         triangulation_check |-> triangulation_check,
         risk_factors |-> risk_factors,
         opportunity_factors |-> opportunity_factors,
         estimated_monthly_units |-> req.product.h10_monthly_sales,
         estimated_profit_margin |-> EstimateProfitMargin(req.product),
         recommendation |->
             GenerateRecommendation(final_decision, overall_score,
                                    risk_factors, opportunity_factors),
         next_steps |-> GenerateNextSteps(final_decision, risk_factors)]

\* ScoringEngine.analyze_product; now is what datetime.now() answers
AnalyzeProduct(cfg, pa, ba, ka, ta, h10, ss, req, now) ==
    LET price_check == PriceBarrierAnalyze(pa, req.product)
        brand_check == BrandDominanceAnalyze(ba, ss)
        keyword_check == VolumeEvaluation(ka, h10, ss, req)
        triangulation_check == TriangulationAnalyze(ta, req.product, h10, ss)
    IN  IF price_check.raised THEN price_check
        ELSE IF brand_check.raised THEN brand_check
        ELSE IF keyword_check.raised THEN keyword_check
        ELSE Aggregate(cfg, h10, ss, req, now, price_check, brand_check,
                       keyword_check, triangulation_check)

----------------------------------------------------------------------------
(* Inputs *)

\* ProductData: the fields the scoring engine and its evaluators read
ProductData(price, marketplace, h10_sales, ss_sales, keepa_drops) ==
    [price |-> price, marketplace |-> marketplace,
     h10_monthly_sales |-> h10_sales, ss_monthly_sales |-> ss_sales,
     keepa_bsr_drops_30d |-> keepa_drops]

MaxPriceStep == 5

\* a grid of prices from below zero to beyond the cap of the top band, and
\* the band edges of the floors 10 and 39
Prices ==
    {RInt(20 * k) : k \in -1 .. MaxPriceStep}
      \cup {RInt(7), RInt(10), RInt(15), RInt(25), Rat(273, 10), RInt(36),
            RInt(39), RInt(49), Rat(117, 2), RInt(79), Rat(195, 2)}

PriceMarketplaces == Marketplace

PriceProducts ==
    {ProductData(p, m, NoneVal, NoneVal, NoneVal) :
        p \in Prices, m \in PriceMarketplaces}

\* environments of the price floors: unset, zero, or another positive floor
PriceEnvs ==
    {<<>>,
     [price_barrier_usd |-> RInt(0), price_barrier_eur |-> RInt(10)],
     [price_barrier_eur |-> RInt(10)]}

\* explicit floors handed to the constructor
PriceCtorArgs == {NoneVal, Some(RInt(0)), Some(RInt(-10))}

\* brands, spelled as strings
StrAmazon == <<"x", "A", "M", "a", "z", "o", "n">>

StrSolimo == <<"S", "o", "l", "i", "m", "o">>

StrBasics == <<"B", "A", "S", "I", "C", "S">>

StrEssentials == <<"e", "s", "s", "e", "n", "t", "i", "a", "l", "s">>

StrBasicsPlus == <<"b", "a", "s", "i", "c", "s", "x">>

StrAcme == <<"A", "c", "m", "e">>

StrOther == <<"O", "t", "h", "e", "r">>

MaxCompetitors == 4

\* all sequences over S of length 0 .. n
SeqsUpTo(S, n) == UNION {[1 .. k -> S] : k \in 0 .. n}

\* competitor lists: short lists over records with and without a usable
\* brand, short lists placing each platform brand at every position, and
\* lists around the top-10 cut
CompetitorLists ==
    SeqsUpTo({NoKey, Entry(NoneVal), Entry(Some(StrAmazon)),
              Entry(Some(StrBasicsPlus)), Entry(Some(StrAcme))}, MaxCompetitors)
      \cup UNION {SeqsUpTo({Entry(Some(StrAcme)), Entry(Some(b))}, MaxCompetitors) :
                     b \in {StrSolimo, StrBasics, StrEssentials}}
      \cup {[i \in 1 .. n |-> IF i <= k THEN Entry(Some(StrAcme))
                              ELSE Entry(Some(StrOther))] :
               n \in 9 .. 12, k \in 1 .. 12}

ClickConcentrations ==
    {NoneVal, Some(RInt(0)), Some(Rat(35, 100)), Some(Rat(45, 100)),
     Some(Rat(60, 100)), Some(Rat(70, 100)), Some(Rat(75, 100))}

\* the answers of a SellerSprite collaborator
SSClient(click, competitors, volume) ==
    Some([click_concentration |-> click, competitors |-> competitors,
          search_volume |-> volume])

\* the answers of a Helium 10 collaborator
H10Client(density, volume) ==
    Some([title_density |-> density, search_volume |-> volume])

BrandSSClients ==
    {NoneVal}
      \cup {SSClient(c, Some(l), NoneVal) :
               c \in ClickConcentrations, l \in CompetitorLists}
      \cup {SSClient(c, NoneVal, NoneVal) : c \in ClickConcentrations}

BrandEnvs ==
    {<<>>, [brand_dominance_threshold |-> Rat(80, 100)],
     [brand_dominance_threshold |-> RInt(0)]}

BrandCtorArgs == {NoneVal, Some(Rat(30, 100))}

\* sales estimates (Helium 10, SellerSprite, Keepa) from no source, one
\* source, and two or three sources that agree, differ moderately, or widely
EngineSales ==
    {<<NoneVal, NoneVal, NoneVal>>,
     <<Some(1000), NoneVal, Some(0)>>,
     <<Some(1000), Some(1100), NoneVal>>,
     <<Some(1000), NoneVal, Some(1500)>>,
     <<Some(1000), Some(2000), Some(400)>>}

\* products of the engine: a US product in the middle price band with every
\* kind of sales estimate, the other price bands, and one EUR-zone product
EngineProducts ==
    {ProductData(RInt(49), "US", e[1], e[2], e[3]) : e \in EngineSales}
      \cup {ProductData(RInt(p), "US", e[1], e[2], e[3]) :
               p \in {20, 30, 79},
               e \in {<<NoneVal, NoneVal, NoneVal>>,
                      <<Some(1000), Some(1100), NoneVal>>}}
      \cup {ProductData(RInt(49), "DE", NoneVal, NoneVal, NoneVal),
            ProductData(RInt(0), "US", NoneVal, NoneVal, NoneVal),
            ProductData(RInt(100), "US", Some(1000), Some(1100), NoneVal)}

\* keyword_data: not passed, or a KeywordData with its exact volume
EngineKeywordData == {NoneVal, Some(500), Some(2000), Some(5000), Some(20000)}

EngineRequests ==
    {[product |-> p, keyword_data |-> k] :
        p \in EngineProducts, k \in EngineKeywordData}

EngineH10Clients ==
    {NoneVal, H10Client(NoneVal, Entry(NoneVal))}
      \cup {H10Client(d, v) :
               d \in {NoneVal, Some(RInt(3)), Some(RInt(6)), Some(RInt(8))},
               v \in {NoKey, Entry(Some(1000))}}

EngineCompetitors ==
    {NoneVal,
     Some(<<Entry(Some(StrAcme)), Entry(Some(StrAcme)), Entry(Some(StrOther))>>),
     Some(<<Entry(Some(StrOther)), Entry(Some(StrAmazon))>>)}

EngineSSClients ==
    {NoneVal,
     SSClient(NoneVal, Some(<<Entry(NoneVal)>>), NoneVal),
     SSClient(Some(Rat(45, 100)), Some(<<>>), Some(0))}
      \cup {SSClient(c, l, v) :
               c \in {NoneVal, Some(RInt(0)), Some(Rat(75, 100))},
               l \in EngineCompetitors,
               v \in {NoneVal, Some(1100)}}

\* environments of the engine: unset; weights that sum to 3 with the green
\* band starting at 100; negative weights with a zero EUR floor; decision
\* bands in the wrong order
EngineEnvs ==
    {<<>>,
     [weight_price_barrier |-> Rat(1, 2), weight_brand_dominance |-> Rat(1, 2),
      weight_keyword_volume |-> Rat(1, 2), weight_review_velocity |-> Rat(1, 2),
      weight_title_density |-> Rat(1, 2), weight_triangulation |-> Rat(1, 2),
      green_threshold |-> RInt(100)],
     [weight_price_barrier |-> RInt(-1), weight_brand_dominance |-> Rat(-1, 2),
      price_barrier_eur |-> RInt(0)],
     [green_threshold |-> RInt(50), yellow_threshold |-> RInt(60)]}

----------------------------------------------------------------------------
(* Construction *)

\* ScoringEngine.__init__: every analyzer takes its thresholds from settings
EngineConstructed ==
    /\ price_analyzer = PriceBarrierAnalyzerInit(NoneVal, NoneVal, settings)
    /\ brand_analyzer = BrandDominanceAnalyzerInit(NoneVal, settings)
    /\ keyword_analyzer = KeywordVolumeAnalyzerInit(NoneVal, settings)
    /\ triangulation_analyzer = TriangulationAnalyzerInit

\* nothing analysed yet
NoResults ==
    /\ price_results = <<>>
    /\ brand_result = NoneVal
    /\ keyword_result = NoneVal
    /\ triangulation_result = NoneVal
    /\ assessment = NoneVal
    /\ earlier = <<>>
    /\ clock = 0
    /\ acos_decision = NoneVal
    /\ stock_analysis = NoneVal

----------------------------------------------------------------------------
(* Specification of the price analyzer: an analyzer is constructed once and *)
(* analyses the products handed to it in order                              *)

PriceInit ==
    /\ \E env \in PriceEnvs : settings = SettingsInit(env)
    /\ \E usd \in PriceCtorArgs :
          price_analyzer = PriceBarrierAnalyzerInit(usd, NoneVal, settings)
    /\ brand_analyzer = BrandDominanceAnalyzerInit(NoneVal, settings)
    /\ keyword_analyzer = KeywordVolumeAnalyzerInit(NoneVal, settings)
    /\ triangulation_analyzer = TriangulationAnalyzerInit
    /\ h10_client = NoneVal
    /\ ss_client = NoneVal
    /\ products \in {<<a, b>> : a \in PriceProducts, b \in PriceProducts}
    /\ request = NoneVal
    /\ NoResults

PriceAnalyzeStep ==
    /\ Len(price_results) < Len(products)
    /\ price_results' =
          Append(price_results,
                 PriceBarrierAnalyze(price_analyzer,
                                     products[Len(price_results) + 1]))
    /\ UNCHANGED <<settings, price_analyzer, brand_analyzer, keyword_analyzer,
                   triangulation_analyzer, h10_client, ss_client, products,
                   brand_result, keyword_result, triangulation_result,
                   request, assessment, earlier, clock, acos_decision,
                   stock_analysis>>

PriceNext == PriceAnalyzeStep

PriceSpec == PriceInit /\ [][PriceNext]_vars

----------------------------------------------------------------------------
(* Specification of the dominance analyzer: one analyzer, one collaborator, *)
(* one call of analyze                                                      *)

BrandInit ==
    /\ \E env \in BrandEnvs : settings = SettingsInit(env)
    /\ \E arg \in BrandCtorArgs :
          brand_analyzer = BrandDominanceAnalyzerInit(arg, settings)
    /\ price_analyzer = PriceBarrierAnalyzerInit(NoneVal, NoneVal, settings)
    /\ keyword_analyzer = KeywordVolumeAnalyzerInit(NoneVal, settings)
    /\ triangulation_analyzer = TriangulationAnalyzerInit
    /\ h10_client = NoneVal
    /\ ss_client \in BrandSSClients
    /\ products = <<>>
    /\ request = NoneVal
    /\ NoResults

BrandAnalyzeStep ==
    /\ brand_result = NoneVal
    /\ brand_result' = Some(BrandDominanceAnalyze(brand_analyzer, ss_client))
    /\ UNCHANGED <<settings, price_analyzer, brand_analyzer, keyword_analyzer,
                   triangulation_analyzer, h10_client, ss_client, products,
                   price_results, keyword_result, triangulation_result,
                   request, assessment, earlier, clock, acos_decision,
                   stock_analysis>>

BrandNext == BrandAnalyzeStep

BrandSpec == BrandInit /\ [][BrandNext]_vars

----------------------------------------------------------------------------
(* Specification of the scoring engine: an engine is constructed over its   *)
(* collaborators and analyze_product is called, and called again            *)

MaxCalls == 2

Init ==
    /\ \E env \in EngineEnvs : settings = SettingsInit(env)
    /\ EngineConstructed
    /\ h10_client \in EngineH10Clients
    /\ ss_client \in EngineSSClients
    /\ products = <<>>
    /\ request \in EngineRequests
    /\ NoResults

\* analyze_product is called again with the same arguments: the engine
\* holds its settings, analyzers and collaborators, the caller the request
AnalyzeProductStep ==
    /\ Len(earlier) + (IF assessment.some THEN 1 ELSE 0) < MaxCalls
    /\ assessment' =
          Some(AnalyzeProduct(settings, price_analyzer, brand_analyzer,
                              keyword_analyzer, triangulation_analyzer,
                              h10_client, ss_client, request, clock))
    /\ earlier' = IF assessment.some THEN Append(earlier, assessment.v)
                  ELSE earlier
    /\ clock' = clock + 1
    /\ UNCHANGED <<settings, price_analyzer, brand_analyzer, keyword_analyzer,
                   triangulation_analyzer, h10_client, ss_client, products,
                   price_results, brand_result, keyword_result,
                   triangulation_result, request, acos_decision,
                   stock_analysis>>

Next == AnalyzeProductStep

Spec == Init /\ [][Next]_vars

----------------------------------------------------------------------------
(* Properties of the price analyzer (PriceSpec) *)

\* every Rule Result in the state that an evaluator returned
RuleResults ==
    {price_results[i] : i \in {j \in 1 .. Len(price_results) :
                                  ~price_results[j].raised}}
      \cup (IF brand_result.some /\ ~brand_result.v.raised
            THEN {brand_result.v} ELSE {})
      \cup (IF assessment.some /\ ~assessment.v.raised
            THEN {assessment.v.price_barrier_check,
                  assessment.v.brand_dominance_check,
                  assessment.v.keyword_volume_check,
                  assessment.v.triangulation_check}
            ELSE {})

\* C4: every Rule Result of the price, dominance, volume and triangulation
\* evaluators has 0 <= score <= 100, whatever the prices, volumes and
\* configured thresholds (zero and negative ones included).
C4_ScoreBounds ==
    \A r \in RuleResults : RLe(RInt(0), r.score) /\ RLe(r.score, RInt(100))

\* the floor the analyzer applies to the i-th product
FloorOf(i) == PriceThreshold(price_analyzer, products[i].marketplace).threshold

\* the curve of the claim for price p and floor t > 0, band by band
OnPriceCurve(p, t, r) ==
    /\ RLt(p, RMul(Rat(7, 10), t)) => r.score = RInt(0) /\ r.status = RED
    /\ RLe(RMul(Rat(7, 10), t), p) /\ RLt(p, t) =>
          r.score = RMul(RDiv(p, t), RInt(50)) /\ r.status = YELLOW
    /\ RLe(t, p) /\ RLt(p, RMul(Rat(3, 2), t)) =>
          /\ r.score = RAdd(RInt(50),
                            RMul(RDiv(RSub(p, t), RMul(Rat(1, 2), t)), RInt(30)))
          /\ RLe(RInt(50), r.score) /\ RLt(r.score, RInt(80))
          /\ r.status = GREEN
    /\ RLe(RMul(Rat(3, 2), t), p) =>
          /\ r.score = RMin(RInt(100),
                            RAdd(RInt(80),
                                 RMul(RDiv(RSub(p, RMul(Rat(3, 2), t)), t),
                                      RInt(20))))
          /\ r.status = GREEN
    /\ t = RInt(39) /\ p = RInt(25) => r.score = RInt(0) /\ r.status = RED
    /\ t = RInt(39) /\ p = RInt(49) =>
          RLe(RInt(50), r.score) /\ RLt(r.score, RInt(80)) /\ r.status = GREEN
    /\ t = RInt(39) /\ p = RInt(79) => RLe(RInt(80), r.score) /\ r.status = GREEN

\* C5: for a floor t > 0, analyze returns a result on the scoring curve:
\* price < 0.7t scores 0 RED, 0.7t <= price < t scores (price/t)*50 YELLOW,
\* t <= price < 1.5t scores 50 + ((price-t)/(0.5t))*30 GREEN, and
\* price >= 1.5t scores min(100, 80 + ((price-1.5t)/t)*20) GREEN.
C5_PriceCurve ==
    \A i \in 1 .. Len(price_results) :
        RLt(RInt(0), FloorOf(i)) =>
            /\ ~price_results[i].raised
            /\ OnPriceCurve(products[i].price, FloorOf(i), price_results[i])

\* C5 witness: with the floor 39, a price in the YELLOW band has been scored
\* and then a price high enough for the cap of 100
C5_Witness ==
    /\ Len(price_results) = 2
    /\ FloorOf(1) = RInt(39) /\ FloorOf(2) = RInt(39)
    /\ price_results[1].status = YELLOW
    /\ products[2].price = RInt(100)
    /\ price_results[2].score = RInt(100)

\* C6: for a fixed floor, the score never decreases when the price grows.
C6_PriceMonotone ==
    (/\ Len(price_results) = 2
     /\ FloorOf(1) = FloorOf(2)
     /\ ~price_results[1].raised /\ ~price_results[2].raised
     /\ RLe(products[1].price, products[2].price))
    => RLe(price_results[1].score, price_results[2].score)

\* the same for positive floors only (holds; recorded with C6)
PriceMonotonePositiveFloor ==
    (Len(price_results) = 2 /\ RLt(RInt(0), FloorOf(1))) => C6_PriceMonotone

\* C7: analyze never raises, also for a zero or negative floor, and reports
\* price_to_threshold_ratio 0 whenever the floor is not positive.
C7_PriceNeverRaises ==
    \A i \in 1 .. Len(price_results) :
        /\ ~price_results[i].raised
        /\ RLe(FloorOf(i), RInt(0)) =>
              price_results[i].metadata.price_to_threshold_ratio = RInt(0)

----------------------------------------------------------------------------
(* Properties of the dominance analyzer (BrandSpec) *)

\* analyze has returned a Rule Result
BrandReturned == brand_result.some /\ ~brand_result.v.raised

\* the competitor list the collaborator answered (empty when none)
AnsweredCompetitors ==
    IF ss_client.some /\ ss_client.v.competitors.some
    THEN ss_client.v.competitors.v ELSE <<>>

\* the claim's test of one competitor record: it has a brand that, ignoring
\* case, contains "amazon" or is one of the aliases
MatchesPlatformBrand(comp) ==
    /\ comp.has /\ comp.val.some
    /\ LET b == StrLower(comp.val.v)
       IN  \/ StrContains(b, <<"a", "m", "a", "z", "o", "n">>)
           \/ b = <<"b", "a", "s", "i", "c", "s">>
           \/ b = <<"e", "s", "s", "e", "n", "t", "i", "a", "l", "s">>
           \/ b = <<"s", "o", "l", "i", "m", "o">>

\* positions of the answered list that hold a platform brand
PlatformPositions ==
    {i \in 1 .. Len(AnsweredCompetitors) :
        MatchesPlatformBrand(AnsweredCompetitors[i])}

\* C8: when analyze returns and a platform brand is among the first 3
\* competitors, the result is score 0 and RED whatever the click
\* concentration and the top-brand share; a match only at position 4 or
\* later does not trigger the override.
C8_PlatformOverride ==
    BrandReturned =>
        /\ (\E i \in PlatformPositions : i <= 3) =>
              /\ brand_result.v.score = RInt(0)
              /\ brand_result.v.status = RED
              /\ brand_result.v.metadata.amazon_detected
        /\ (\A i \in PlatformPositions : i > 3) =>
              /\ ~brand_result.v.metadata.amazon_detected
              /\ brand_result.v.score # RInt(0)

\* C8 witness: the only platform brand sits at position 3 (an alias in upper
\* case), the click concentration is known to be 0, and the result is 0 RED
C8_Witness ==
    /\ BrandReturned
    /\ PlatformPositions = {3}
    /\ AnsweredCompetitors[3] = Entry(Some(StrBasics))
    /\ ss_client.v.click_concentration = Some(RInt(0))
    /\ brand_result.v.score = RInt(0) /\ brand_result.v.status = RED

\* the top brand's share of the top-10 set as the claim words it
ClaimedTopShare ==
    LET n == IF Len(AnsweredCompetitors) < 10 THEN Len(AnsweredCompetitors)
             ELSE 10
        first == DictGet(AnsweredCompetitors[1], NoneVal)
    IN  Rat(Cardinality({i \in 1 .. n :
                            DictGet(AnsweredCompetitors[i], NoneVal) = first}), n)

\* C9: d is the click concentration whenever the collaborator returned one
\* (0 included); only otherwise the top brand's share of the top-10
\* competitors; and 0 when neither is available.
C9_MetricSelection ==
    BrandReturned =>
        LET click == IF ss_client.some THEN ss_client.v.click_concentration
                     ELSE NoneVal
            d == brand_result.v.actual_value
        IN  IF click.some THEN d = click.v
            ELSE IF AnsweredCompetitors # <<>> THEN d = ClaimedTopShare
            ELSE d = RInt(0)

\* the bands of the claim for a result without a detected platform brand
OnDominanceBands(r, thr) ==
    LET d == r.actual_value
    IN  IF RGe(d, Rat(70, 100)) THEN r.score = RInt(10) /\ r.status = RED
        ELSE IF RGe(d, thr) THEN r.score = RInt(30) /\ r.status = YELLOW
        ELSE IF RGe(d, Rat(40, 100)) THEN r.score = RInt(60) /\ r.status = YELLOW
        ELSE r.score = RInt(90) /\ r.status = GREEN

\* C10 as stated: without a detected platform brand the result follows the
\* bands d >= 0.70, d >= dominance_threshold, d >= 0.40, else, in this order;
\* and with no collaborator at all d = 0 and the result is 90 GREEN.
C10_DominanceBands ==
    BrandReturned =>
        /\ ~brand_result.v.metadata.amazon_detected =>
              OnDominanceBands(brand_result.v, brand_analyzer.dominance_threshold)
        /\ ~ss_client.some =>
              /\ brand_result.v.actual_value = RInt(0)
              /\ brand_result.v.score = RInt(90)
              /\ brand_result.v.status = GREEN

\* C10 amended: the same bands; with no collaborator at all d = 0, and the
\* result is 90 GREEN when dominance_threshold > 0 (a threshold <= 0 puts
\* d = 0 in the second band: 30 YELLOW).
C10_DominanceBandsAmended ==
    BrandReturned =>
        /\ ~brand_result.v.metadata.amazon_detected =>
              OnDominanceBands(brand_result.v, brand_analyzer.dominance_threshold)
        /\ ~ss_client.some =>
              /\ brand_result.v.actual_value = RInt(0)
              /\ RLt(RInt(0), brand_analyzer.dominance_threshold) =>
                    brand_result.v.score = RInt(90) /\ brand_result.v.status = GREEN
              /\ RLe(brand_analyzer.dominance_threshold, RInt(0)) =>
                    brand_result.v.score = RInt(30) /\ brand_result.v.status = YELLOW

\* C10 witness: threshold 0.30 and a known concentration of 0.35, which the
\* second band takes (30 YELLOW) before the 0.40 band is looked at
C10_Witness ==
    /\ BrandReturned
    /\ brand_analyzer.dominance_threshold = Rat(30, 100)
    /\ ss_client.some /\ ss_client.v.click_concentration = Some(Rat(35, 100))
    /\ ~brand_result.v.metadata.amazon_detected
    /\ brand_result.v.score = RInt(30) /\ brand_result.v.status = YELLOW

----------------------------------------------------------------------------
(* Properties of the scoring engine (Spec) *)

\* analyze_product has returned an assessment
Returned == assessment.some /\ ~assessment.v.raised

\* a kill switch is on: the price, dominance or volume result is RED
KillSwitch(a) ==
    \/ a.price_barrier_check.status = RED
    \/ a.brand_dominance_check.status = RED
    \/ a.keyword_volume_check.status = RED

\* C1: whenever the price, dominance or volume Rule Result of a returned
\* assessment is RED, final_decision is RED, for every overall_score, also
\* one at or above green_threshold.
C1_KillSwitchPrecedence ==
    Returned => (KillSwitch(assessment.v) => assessment.v.final_decision = RED)

\* C1 witness: the dominance result alone is RED while overall_score has
\* reached green_threshold, and the decision is RED
C1_Witness ==
    /\ Returned
    /\ assessment.v.brand_dominance_check.status = RED
    /\ assessment.v.price_barrier_check.status = GREEN
    /\ assessment.v.keyword_volume_check.status = GREEN
    /\ RGe(assessment.v.overall_score, settings.green_threshold)
    /\ assessment.v.final_decision = RED

\* C2: with no kill switch on, final_decision is GREEN iff overall_score >=
\* green_threshold, YELLOW iff yellow_threshold <= overall_score <
\* green_threshold, and RED otherwise; with the default thresholds 75 is
\* GREEN, 55 is YELLOW and 20 is RED.
C2_DecisionBanding ==
    (Returned /\ ~KillSwitch(assessment.v)) =>
        LET a == assessment.v
            green == RGe(a.overall_score, settings.green_threshold)
            yellow == /\ RGe(a.overall_score, settings.yellow_threshold)
                      /\ RLt(a.overall_score, settings.green_threshold)
            defaults == /\ settings.green_threshold = RInt(70)
                        /\ settings.yellow_threshold = RInt(40)
        IN  /\ a.final_decision = GREEN <=> green
            /\ a.final_decision = YELLOW <=> yellow
            /\ a.final_decision = RED <=> (~green /\ ~yellow)
            /\ (defaults /\ a.overall_score = RInt(75)) => a.final_decision = GREEN
            /\ (defaults /\ a.overall_score = RInt(55)) => a.final_decision = YELLOW
            /\ (defaults /\ a.overall_score = RInt(20)) => a.final_decision = RED

\* C2 witness: no kill switch, overall_score exactly at green_threshold, GREEN
C2_Witness ==
    /\ Returned /\ ~KillSwitch(assessment.v)
    /\ assessment.v.overall_score = settings.green_threshold
    /\ assessment.v.final_decision = GREEN

\* the weight configured for a rule
WeightFor(rule_name) ==
    CASE rule_name = "price_barrier" -> settings.weight_price_barrier
      [] rule_name = "brand_dominance" -> settings.weight_brand_dominance
      [] rule_name = "keyword_volume" -> settings.weight_keyword_volume
      [] rule_name = "triangulation" -> settings.weight_triangulation
      [] rule_name = "review_velocity" -> settings.weight_review_velocity
      [] rule_name = "title_density" -> settings.weight_title_density

\* the results of the weighted evaluators that ran in assessment a
RanWeighted(a) ==
    {a.price_barrier_check, a.brand_dominance_check, a.keyword_volume_check,
     a.triangulation_check}
      \cup (IF a.review_velocity_check.some
            THEN {a.review_velocity_check.v} ELSE {})
      \cup (IF a.title_density_check.some
            THEN {a.title_density_check.v} ELSE {})

RECURSIVE WeightedSum(_)
WeightedSum(results) ==
    IF results = {} THEN RInt(0)
    ELSE LET r == CHOOSE x \in results : TRUE
         IN  RAdd(RMul(r.score, WeightFor(r.rule_name)),
                  WeightedSum(results \ {r}))

\* C3: overall_score is the sum of score x configured weight over exactly
\* the evaluators that ran, clamped to [0, 100]; an optional evaluator
\* without data is absent from the assessment and adds nothing, and the
\* weights are not renormalised.
C3_WeightedAggregation ==
    Returned =>
        LET a == assessment.v
            sum == WeightedSum(RanWeighted(a))
        IN  /\ a.overall_score =
                  (IF RLt(sum, RInt(0)) THEN RInt(0)
                   ELSE IF RLt(RInt(100), sum) THEN RInt(100) ELSE sum)
            /\ a.title_density_check.some <=>
                  (h10_client.some /\ h10_client.v.title_density.some)
            /\ ~a.review_velocity_check.some

\* C3 witness: title density was skipped for lack of data, and the four
\* remaining weighted scores sum to a value strictly inside (0, 100) under
\* the default weights
C3_Witness ==
    /\ Returned
    /\ settings = DefaultSettings
    /\ h10_client.some /\ ~assessment.v.title_density_check.some
    /\ assessment.v.overall_score = WeightedSum(RanWeighted(assessment.v))
    /\ RLt(RInt(60), assessment.v.overall_score)

\* the clamp of C3 is reached at both ends
C3_ClampedHigh ==
    /\ Returned
    /\ RLt(RInt(100), WeightedSum(RanWeighted(assessment.v)))
    /\ assessment.v.overall_score = RInt(100)

C3_ClampedLow ==
    /\ Returned
    /\ RLt(WeightedSum(RanWeighted(assessment.v)), RInt(0))
    /\ assessment.v.overall_score = RInt(0)

----------------------------------------------------------------------------
(* Specification of the volume analyzer: one analyzer, a KeywordData and a  *)
(* call of analyze, then another KeywordData and another call               *)

MaxVolumeStep == 16

\* exact search volumes: a grid of thousands from below zero upwards, and the
\* band edges 0.3m, m, 2m and 5m of the minimums 100, 1000 and 3000 with
\* their neighbours
VolumeEdges ==
    {30, 100, 200, 500, 300, 1000, 2000, 5000, 900, 3000, 6000, 15000}

Volumes ==
    {1000 * k : k \in -1 .. MaxVolumeStep}
      \cup UNION {{e - 1, e, e + 1} : e \in VolumeEdges}
      \cup {150, 350, 1500, 3500, 4500, 10000}

\* environments of the minimum volume: unset, another minimum, zero
VolumeEnvs ==
    {<<>>, [min_keyword_volume |-> 1000], [min_keyword_volume |-> 0],
     [min_keyword_volume |-> -100]}

\* explicit minimums handed to the constructor
VolumeCtorArgs == {NoneVal, Some(0), Some(100)}

VolumeInit ==
    /\ \E env \in VolumeEnvs : settings = SettingsInit(env)
    /\ \E arg \in VolumeCtorArgs :
          keyword_analyzer = KeywordVolumeAnalyzerInit(arg, settings)
    /\ price_analyzer = PriceBarrierAnalyzerInit(NoneVal, NoneVal, settings)
    /\ brand_analyzer = BrandDominanceAnalyzerInit(NoneVal, settings)
    /\ triangulation_analyzer = TriangulationAnalyzerInit
    /\ h10_client = NoneVal
    /\ ss_client = NoneVal
    /\ products = <<>>
    /\ \E v \in Volumes : request = [keyword_data |-> KeywordData(Some(v))]
    /\ NoResults

VolumeAnalyzeStep ==
    /\ keyword_result = NoneVal
    /\ keyword_result' =
          Some(KeywordVolumeAnalyze(keyword_analyzer, request.keyword_data))
    /\ UNCHANGED <<settings, price_analyzer, brand_analyzer, keyword_analyzer,
                   triangulation_analyzer, h10_client, ss_client, products,
                   price_results, brand_result, triangulation_result,
                   request, assessment, earlier, clock, acos_decision,
                   stock_analysis>>

\* the analyzer is handed another KeywordData; the earlier one and its
\* result are kept beside the new ones
VolumeAnalyzeNextStep ==
    /\ keyword_result.some
    /\ earlier = <<>>
    /\ earlier' = <<[keyword_data |-> request.keyword_data,
                     result |-> keyword_result.v]>>
    /\ \E v \in Volumes :
          /\ request' = [keyword_data |-> KeywordData(Some(v))]
          /\ keyword_result' =
                Some(KeywordVolumeAnalyze(keyword_analyzer,
                                          KeywordData(Some(v))))
    /\ UNCHANGED <<settings, price_analyzer, brand_analyzer, keyword_analyzer,
                   triangulation_analyzer, h10_client, ss_client, products,
                   price_results, brand_result, triangulation_result,
                   assessment, clock, acos_decision, stock_analysis>>

VolumeNext ==
    \/ VolumeAnalyzeStep
    \/ VolumeAnalyzeNextStep

VolumeSpec == VolumeInit /\ [][VolumeNext]_vars

----------------------------------------------------------------------------
(* Properties of the volume analyzer (VolumeSpec) *)

VolumeReturned == keyword_result.some /\ ~keyword_result.v.raised

\* the Demand-Volume bands for an integer volume v and minimum m > 0, in
\* integer arithmetic
OnVolumeBands(v, m, r) ==
    IF 10 * v < 3 * m THEN r.score = RInt(0) /\ r.status = RED
    ELSE IF v < m THEN r.score = Rat(50 * v, m) /\ r.status = YELLOW
    ELSE IF v < 2 * m
    THEN r.score = Rat(50 * m + 30 * (v - m), m) /\ r.status = GREEN
    ELSE IF v < 5 * m
    THEN /\ r.score = LET x == Rat(15 * (v - 2 * m), 3 * m)
                      IN  RAdd(RInt(80), IF RLe(RInt(15), x) THEN RInt(15) ELSE x)
         /\ r.status = GREEN
    ELSE r.score = RInt(90) /\ r.status = GREEN

\* C11: for an exact volume v and a minimum m > 0 the volume result lies on
\* the Demand-Volume bands: below 0.3m score 0 RED; below m score (v/m)*50
\* YELLOW; below 2m score 50 + ((v-m)/m)*30 GREEN; below 5m score
\* 80 + min(15, ((v-2m)/(3m))*15) GREEN; from 5m on score exactly 90 GREEN;
\* v = 500 with m = 3000 gives score 0 RED
C11_VolumeBands ==
    (keyword_result.some /\ keyword_analyzer.min_volume > 0) =>
        /\ ~keyword_result.v.raised
        /\ OnVolumeBands(request.keyword_data.exact_search_volume,
                         keyword_analyzer.min_volume, keyword_result.v)
        /\ (/\ request.keyword_data.exact_search_volume = 500
            /\ keyword_analyzer.min_volume = 3000)
              => (keyword_result.v.score = RInt(0) /\ keyword_result.v.status = RED)

\* C11 witness: a volume exactly at the minimum was analysed and scored 50 GREEN
C11_Witness ==
    /\ VolumeReturned
    /\ keyword_analyzer.min_volume > 0
    /\ request.keyword_data.exact_search_volume = keyword_analyzer.min_volume
    /\ keyword_result.v.status = GREEN
    /\ keyword_result.v.score = RInt(50)

\* every band of the volume chain is reached, the top band included
VolumeTopBandReached ==
    /\ VolumeReturned
    /\ keyword_analyzer.min_volume > 0
    /\ request.keyword_data.exact_search_volume >= 5 * keyword_analyzer.min_volume
    /\ keyword_result.v.score = RInt(90)

----------------------------------------------------------------------------
(* Specification of the triangulation analyzer: one analyzer over its       *)
(* collaborators, one product, one call of analyze                          *)

MaxEstimateStep == 2

\* one source's estimate of a quantity: unknown, zero, or a number
Estimates ==
    {NoneVal, Some(0), Some(1100)} \cup {Some(1000 * k) : k \in 1 .. MaxEstimateStep}

TriangulationProducts ==
    {ProductData(RInt(49), "US", a, b, c) :
        a \in Estimates, b \in Estimates, c \in Estimates}

TriangulationH10Clients ==
    {NoneVal}
      \cup {H10Client(d, v) :
               d \in {NoneVal, Some(RInt(8))},
               v \in {NoKey, Entry(NoneVal), Entry(Some(0)), Entry(Some(1000)),
                      Entry(Some(2000))}}

TriangulationSSClients ==
    {NoneVal}
      \cup {SSClient(c, NoneVal, v) :
               c \in {NoneVal, Some(Rat(75, 100))},
               v \in {NoneVal, Some(0), Some(1100), Some(2000)}}

\* variance_threshold: the default, one that puts {1000, 2000} exactly on the
\* edge of the second band, and zero
VarianceThresholds == {Rat(30, 100), Rat(1, 3), RInt(0)}

TriangulationInit ==
    /\ settings = SettingsInit(<<>>)
    /\ price_analyzer = PriceBarrierAnalyzerInit(NoneVal, NoneVal, settings)
    /\ brand_analyzer = BrandDominanceAnalyzerInit(NoneVal, settings)
    /\ keyword_analyzer = KeywordVolumeAnalyzerInit(NoneVal, settings)
    /\ \E t \in VarianceThresholds :
          triangulation_analyzer = TriangulationAnalyzerInitWith(t)
    /\ h10_client \in TriangulationH10Clients
    /\ ss_client \in TriangulationSSClients
    /\ \E p \in TriangulationProducts : products = <<p>>
    /\ request = NoneVal
    /\ NoResults

\* analyze, with its local confidence_scores as they stand at the return
TriangulationAnalyzeStep ==
    /\ triangulation_result = NoneVal
    /\ triangulation_result' =
          Some([rule |-> TriangulationAnalyze(triangulation_analyzer, products[1],
                                              h10_client, ss_client),
                confidence_scores |->
                    ConfidenceScores(triangulation_analyzer, products[1],
                                     h10_client, ss_client)])
    /\ UNCHANGED <<settings, price_analyzer, brand_analyzer, keyword_analyzer,
                   triangulation_analyzer, h10_client, ss_client, products,
                   price_results, brand_result, keyword_result,
                   request, assessment, earlier, clock, acos_decision,
                   stock_analysis>>

TriangulationNext == TriangulationAnalyzeStep

TriangulationSpec == TriangulationInit /\ [][TriangulationNext]_vars

----------------------------------------------------------------------------
(* Properties of the triangulation analyzer (TriangulationSpec) *)

\* the numeric estimates that exist among the sources' answers: every answer
\* that is a number, zero included
Known(opts) ==
    LET keep == {i \in 1 .. Len(opts) : opts[i].some}
        F[i \in 0 .. Len(opts)] ==
            IF i = 0 THEN <<>>
            ELSE IF i \in keep THEN Append(F[i - 1], opts[i].v) ELSE F[i - 1]
    IN  F[Len(opts)]

\* the estimates of monthly sales that exist for the analysed product
KnownSales ==
    Known(<<products[1].h10_monthly_sales, products[1].ss_monthly_sales,
            products[1].keepa_bsr_drops_30d>>)

\* the estimates of keyword volume that the collaborators answered
KnownVolumes ==
    Known(<<IF h10_client.some
            THEN DictGet(h10_client.v.search_volume, NoneVal) ELSE NoneVal,
            IF ss_client.some THEN ss_client.v.search_volume ELSE NoneVal>>)

\* what the contract allows for one quantity with the estimates E: the range
\* of its confidence contribution, whether an issue is recorded ("yes", "no",
\* or "any" where the contract is silent: the variance of estimates whose
\* mean is zero), and whether the quantity may stay without a contribution
ClaimedConfidence(E, thr) ==
    IF Len(E) >= 2
    THEN IF SeqSum(E) = 0
         THEN [lo |-> 0, hi |-> 100, issue |-> "any", skip |-> TRUE]
         ELSE LET variance == RDiv(RInt(SeqMax(E) - SeqMin(E)), Mean(E))
                  c == IF RLe(variance, thr) THEN 100
                       ELSE IF RLe(variance, RMul(RInt(2), thr)) THEN 70
                       ELSE 30
              IN  [lo |-> c, hi |-> c, issue |-> IF c # 100 THEN "yes" ELSE "no", skip |-> FALSE]
    ELSE [lo |-> 0, hi |-> 50, issue |-> "yes", skip |-> (Len(E) = 0)]

\* the score is the mean of contributions that lie within the ranges a and b
ScoreWithin(score, a, b) ==
    \/ /\ RLe(RInt(a.lo + b.lo), RMul(RInt(2), score))
       /\ RLe(RMul(RInt(2), score), RInt(a.hi + b.hi))
    \/ a.skip /\ RLe(RInt(b.lo), score) /\ RLe(score, RInt(b.hi))
    \/ b.skip /\ RLe(RInt(a.lo), score) /\ RLe(score, RInt(a.hi))
    \/ a.skip /\ b.skip /\ score = RInt(0)

\* the issues recorded for a quantity are as the range a asks
IssueAsClaimed(rule, quantity, a) ==
    LET recorded == \E i \in 1 .. Len(rule.metadata.issues) :
                       rule.metadata.issues[i].quantity = quantity
    IN  a.issue = "any" \/ (a.issue = "yes") = recorded

TriangulationAsClaimed ==
    LET rule == triangulation_result.v.rule
        thr  == triangulation_analyzer.variance_threshold
        a    == ClaimedConfidence(KnownSales, thr)
        b    == ClaimedConfidence(KnownVolumes, thr)
    IN  /\ ScoreWithin(rule.score, a, b)
        /\ IssueAsClaimed(rule, "sales", a)
        /\ IssueAsClaimed(rule, "keyword volume", b)

\* C12: for monthly sales and for keyword volume, fewer than 2 existing
\* estimates cap the quantity's confidence at 50 and record an issue; with 2
\* or more, variance = (max - min)/mean gives confidence 100 up to
\* variance_threshold, 70 with an issue up to twice the threshold and 30 with
\* an issue beyond; sales {1000, 1100} with threshold 0.30 give 100
C12_PerQuantityConfidence ==
    triangulation_result.some => TriangulationAsClaimed

\* the same holds whenever every quantity has an estimate and no estimate is 0
PerQuantityConfidenceNonzero ==
    (/\ triangulation_result.some
     /\ KnownSales # <<>> /\ KnownVolumes # <<>>
     /\ \A i \in 1 .. Len(KnownSales) : KnownSales[i] # 0
     /\ \A i \in 1 .. Len(KnownVolumes) : KnownVolumes[i] # 0)
        => TriangulationAsClaimed

\* the results of analyze for other answers about title density and click
\* concentration, everything else as in the state
OtherCompetitionAnswers ==
    {TriangulationAnalyze(
         triangulation_analyzer, products[1],
         IF h10_client.some
         THEN Some([h10_client.v EXCEPT !.title_density = d]) ELSE h10_client,
         IF ss_client.some
         THEN Some([ss_client.v EXCEPT !.click_concentration = c]) ELSE ss_client) :
       d \in {NoneVal, Some(RInt(3)), Some(RInt(8))},
       c \in {NoneVal, Some(Rat(30, 100)), Some(Rat(75, 100))}}

\* C13: the triangulation score is the arithmetic mean of the per-quantity
\* confidences that were computed, and 0 when none was; the status is GREEN
\* iff score >= 80, YELLOW iff 60 <= score < 80, RED otherwise; the
\* competition level is one of low/medium/high/unknown in the metadata and
\* no answer about title density or click concentration changes score or
\* status
C13_TriangulationScore ==
    triangulation_result.some =>
        LET rule == triangulation_result.v.rule
            cs   == triangulation_result.v.confidence_scores
        IN  /\ rule.score = IF cs = <<>> THEN RInt(0)
                            ELSE Rat(SeqSum(cs), Len(cs))
            /\ (rule.status = GREEN) = RLe(RInt(80), rule.score)
            /\ (rule.status = YELLOW)
                  = (RLe(RInt(60), rule.score) /\ RLt(rule.score, RInt(80)))
            /\ (rule.status = RED) = RLt(rule.score, RInt(60))
            /\ rule.metadata.competition_level
                  \in {"low", "medium", "high", "unknown"}
            /\ \A other \in OtherCompetitionAnswers :
                  other.score = rule.score /\ other.status = rule.status

\* C13 witness: two confidences were computed, their mean 85 is GREEN, and the
\* competition level in the metadata is high
C13_Witness ==
    /\ triangulation_result.some
    /\ Len(triangulation_result.v.confidence_scores) = 2
    /\ triangulation_result.v.rule.score = RInt(85)
    /\ triangulation_result.v.rule.status = GREEN
    /\ triangulation_result.v.rule.metadata.competition_level = "high"

\* the score 0 of an analysis without any estimate is reached
TriangulationNoneComputed ==
    /\ triangulation_result.some
    /\ triangulation_result.v.confidence_scores = <<>>
    /\ triangulation_result.v.rule.score = RInt(0)
    /\ triangulation_result.v.rule.status = RED

\* the YELLOW edge, a mean of exactly 60, is reached
TriangulationYellowEdge ==
    /\ triangulation_result.some
    /\ triangulation_result.v.rule.score = RInt(60)
    /\ triangulation_result.v.rule.status = YELLOW

----------------------------------------------------------------------------
(* Properties of the scoring engine, continued (Spec) *)

\* the Rule Results of every evaluator that ran for the assessment a: the
\* four that always run and each optional one that produced a result
RanEvaluators(a) ==
    {a.price_barrier_check, a.brand_dominance_check, a.keyword_volume_check,
     a.triangulation_check}
      \cup {c.v : c \in {o \in {a.review_velocity_check, a.title_density_check,
                                a.click_concentration_check} : o.some}}

\* how many entries of the list of factors are about the rule
EntriesAbout(factors, rule_name) ==
    Cardinality({i \in 1 .. Len(factors) : factors[i] = rule_name})

\* the list has exactly one entry for each of the results that qualifies, and
\* no other entry
OneEntryEach(factors, results, Qualifies(_)) ==
    /\ \A r \in results :
          EntriesAbout(factors, r.rule_name) = IF Qualifies(r) THEN 1 ELSE 0
    /\ \A i \in 1 .. Len(factors) : \E r \in results : factors[i] = r.rule_name

IsRisk(r) == r.status \in {RED, YELLOW}

IsOpportunity(r) == r.status = GREEN /\ RLe(RInt(80), r.score)

\* C14: risk_factors of a returned assessment holds exactly one entry for
\* each evaluator that ran (price, dominance, volume, triangulation, and
\* every optional evaluator with a result, such as title density) whose
\* status is RED or YELLOW, and no entry for a GREEN evaluator
C14_RiskFactors ==
    Returned =>
        OneEntryEach(assessment.v.risk_factors, RanEvaluators(assessment.v), IsRisk)

\* the same holds over the evaluators other than title density
RiskFactorsExceptTitleDensity ==
    Returned =>
        OneEntryEach(assessment.v.risk_factors,
                     {r \in RanEvaluators(assessment.v) :
                         r.rule_name # "title_density"}, IsRisk)

\* C15: opportunity_factors of a returned assessment holds exactly one entry
\* for each evaluator that ran (triangulation and title density included)
\* whose status is GREEN with a score >= 80, and no entry for any other
C15_OpportunityFactors ==
    Returned =>
        OneEntryEach(assessment.v.opportunity_factors,
                     RanEvaluators(assessment.v), IsOpportunity)

\* the same holds over the evaluators other than triangulation
OpportunitiesExceptTriangulation ==
    Returned =>
        OneEntryEach(assessment.v.opportunity_factors,
                     {r \in RanEvaluators(assessment.v) :
                         r.rule_name # "triangulation"}, IsOpportunity)

\* the rules whose risk entry mentions dominance or monopoly, in any case
MentionsDominanceOrMonopoly(rule_name) == rule_name = "brand_dominance"

\* C16: narrative and next steps follow the final decision: RED gives the
\* REJECT recommendation and the 3 abandon steps, GREEN the APPROVE
\* recommendation and the 6 sourcing steps, YELLOW the CAUTION
\* recommendation and the 4 review steps, with the step "Verify Amazon's
\* private label presence manually" appended last if and only if some risk
\* factor mentions dominance or monopoly
C16_NarrativeAndNextSteps ==
    Returned =>
        LET a == assessment.v
            mentioned == \E i \in 1 .. Len(a.risk_factors) :
                            MentionsDominanceOrMonopoly(a.risk_factors[i])
        IN  /\ a.final_decision = RED =>
                  /\ a.recommendation.verdict = "REJECT"
                  /\ a.next_steps = RejectSteps /\ Len(a.next_steps) = 3
            /\ a.final_decision = GREEN =>
                  /\ a.recommendation.verdict = "APPROVE"
                  /\ a.next_steps = ApproveSteps /\ Len(a.next_steps) = 6
            /\ a.final_decision = YELLOW =>
                  /\ a.recommendation.verdict = "CAUTION"
                  /\ SubSeq(a.next_steps, 1, 4) = CautionSteps
                  /\ Len(a.next_steps) = IF mentioned THEN 5 ELSE 4
                  /\ mentioned => a.next_steps[5] = VerifyStep

\* C16 witness: a CAUTION whose only risk is not about dominance, with the 4
\* review steps and no verification step
C16_Witness ==
    /\ Returned
    /\ assessment.v.final_decision = YELLOW
    /\ assessment.v.risk_factors # <<>>
    /\ assessment.v.brand_dominance_check.status = GREEN
    /\ assessment.v.next_steps = CautionSteps

\* a CAUTION with a YELLOW dominance result and the verification step last
CautionWithVerifyStep ==
    /\ Returned
    /\ assessment.v.final_decision = YELLOW
    /\ assessment.v.brand_dominance_check.status = YELLOW
    /\ assessment.v.next_steps = Append(CautionSteps, VerifyStep)

\* C17: for a price > 0 the estimated profit margin is what remains after
\* 35% fees and 33% cost of goods, 32 whatever the price, within [0, 100]
\* and within [25, 40]; for a price of zero no estimate is attached
C17_ProfitMargin ==
    Returned =>
        LET price  == request.product.price
            margin == assessment.v.estimated_profit_margin
        IN  /\ RLt(RInt(0), price) =>
                  /\ margin = Some(Rat(100 - 35 - 33, 1))
                  /\ RLe(RInt(0), margin.v) /\ RLe(margin.v, RInt(100))
                  /\ RLe(RInt(25), margin.v) /\ RLe(margin.v, RInt(40))
            /\ RIsZero(price) => margin = NoneVal

\* C17 witness: an assessment of a product priced 0 came back without a margin
C17_Witness ==
    /\ Returned
    /\ RIsZero(request.product.price)
    /\ assessment.v.estimated_profit_margin = NoneVal

\* an assessment of a product priced above 0 came back with the margin 32
MarginOfPricedProduct ==
    /\ Returned
    /\ request.product.price = RInt(79)
    /\ assessment.v.estimated_profit_margin = Some(RInt(32))

\* the outcome of a call without its timestamp
WithoutTimestamp(r) ==
    IF r.raised THEN r ELSE [f \in DOMAIN r \ {"analyzed_at"} |-> r[f]]

PositiveFloor ==
    RLt(RInt(0),
        PriceThreshold(price_analyzer, request.product.marketplace).threshold)

\* C19: given a Keyword with an exact volume, analyze_product returns a
\* complete assessment without raising for every combination of absent
\* collaborators, collaborators answering unknown or empty (None, empty list,
\* empty mapping, competitor records without a brand or with an unknown
\* brand) and absent optional Product fields
C19_GracefulDegradation ==
    (assessment.some /\ request.keyword_data.some /\ PositiveFloor)
        => ~assessment.v.raised

\* the same holds when no competitor record carries an unknown brand
DegradationWithKnownBrands ==
    (/\ assessment.some /\ request.keyword_data.some /\ PositiveFloor
     /\ (ss_client.some /\ ss_client.v.competitors.some) =>
            \A i \in 1 .. Len(ss_client.v.competitors.v) :
                ss_client.v.competitors.v[i] # Entry(NoneVal))
        => ~assessment.v.raised

\* a configuration is valid: no negative weight, yellow below green
ValidConfiguration(cfg) ==
    /\ \A w \in {cfg.weight_price_barrier, cfg.weight_brand_dominance,
                  cfg.weight_keyword_volume, cfg.weight_review_velocity,
                  cfg.weight_title_density, cfg.weight_triangulation} :
          RLe(RInt(0), w)
    /\ RLt(cfg.yellow_threshold, cfg.green_threshold)

\* C20: a configuration with a negative weight or with yellow_threshold >=
\* green_threshold is rejected when it is loaded, so no call of
\* analyze_product runs with such a configuration
C20_ConfigurationErrorsFailAtLoad ==
    assessment.some => ValidConfiguration(settings)

----------------------------------------------------------------------------
(* Properties of the scoring engine: the exact search volume (Spec) *)

\* no exact search volume is known: analyze_product got no keyword data, and
\* no collaborator is there that answers a volume
NoVolumeKnown ==
    /\ request.keyword_data = NoneVal
    /\ \/ ~h10_client.some
       \/ DictGet(h10_client.v.search_volume, NoneVal) = NoneVal
    /\ \/ ~ss_client.some
       \/ ss_client.v.search_volume = NoneVal

\* C21: an evaluation for which no exact search volume is known fails before
\* the volume evaluation starts and returns no assessment; the unknown volume
\* is never replaced by 0 and turned into a RED verdict
C21_MissingVolumeFailsFast ==
    (assessment.some /\ NoVolumeKnown) => assessment.v.raised

\* without any collaborator the unknown volume is analysed as the volume 0
UnknownVolumeAnalysedAsZero ==
    (assessment.some /\ NoVolumeKnown /\ ~h10_client.some /\ PositiveFloor
       /\ ~(ss_client.some /\ ss_client.v.competitors.some
              /\ \E i \in 1 .. Len(ss_client.v.competitors.v) :
                    ss_client.v.competitors.v[i] = Entry(NoneVal)))
        => /\ ~assessment.v.raised
           /\ assessment.v.keyword_volume_check.actual_value = RInt(0)
           /\ assessment.v.keyword_volume_check.status = RED
           /\ assessment.v.final_decision = RED

----------------------------------------------------------------------------
(* Specification of the evaluators in any order: the four evaluators of     *)
(* analyze_product run one after the other in an order the scheduler picks, *)
(* an exception ends the evaluation, and the aggregator runs last           *)

OrderEnvs == {<<>>, [price_barrier_eur |-> RInt(0)]}

OrderH10Clients == {NoneVal, H10Client(Some(RInt(6)), Entry(Some(1000)))}

OrderSSClients ==
    {NoneVal,
     SSClient(Some(Rat(45, 100)),
              Some(<<Entry(Some(StrAcme)), Entry(Some(StrOther))>>), Some(1100)),
     SSClient(NoneVal, Some(<<Entry(NoneVal)>>), NoneVal)}

OrderRequests ==
    {[product |-> p, keyword_data |-> k] :
        p \in {ProductData(RInt(49), "US", NoneVal, NoneVal, NoneVal),
               ProductData(RInt(20), "US", Some(1000), Some(1100), NoneVal),
               ProductData(RInt(49), "DE", Some(1000), NoneVal, Some(1500))},
        k \in {NoneVal, Some(5000)}}

OrderInit ==
    /\ \E env \in OrderEnvs : settings = SettingsInit(env)
    /\ EngineConstructed
    /\ h10_client \in OrderH10Clients
    /\ ss_client \in OrderSSClients
    /\ products = <<>>
    /\ request \in OrderRequests
    /\ NoResults

\* the outcomes of the evaluators that have run so far
EvaluatorOutcomes ==
    {price_results[i] : i \in 1 .. Len(price_results)}
      \cup (IF brand_result.some THEN {brand_result.v} ELSE {})
      \cup (IF keyword_result.some THEN {keyword_result.v} ELSE {})
      \cup (IF triangulation_result.some THEN {triangulation_result.v.rule}
            ELSE {})

\* the evaluation is still running: no exception so far, no assessment yet
Evaluating ==
    /\ assessment = NoneVal
    /\ \A r \in EvaluatorOutcomes : ~r.raised

PriceEvaluatorStep ==
    /\ Evaluating
    /\ price_results = <<>>
    /\ price_results' = <<PriceBarrierAnalyze(price_analyzer, request.product)>>
    /\ UNCHANGED <<settings, price_analyzer, brand_analyzer, keyword_analyzer,
                   triangulation_analyzer, h10_client, ss_client, products,
                   brand_result, keyword_result, triangulation_result,
                   request, assessment, earlier, clock, acos_decision,
                   stock_analysis>>

BrandEvaluatorStep ==
    /\ Evaluating
    /\ brand_result = NoneVal
    /\ brand_result' = Some(BrandDominanceAnalyze(brand_analyzer, ss_client))
    /\ UNCHANGED <<settings, price_analyzer, brand_analyzer, keyword_analyzer,
                   triangulation_analyzer, h10_client, ss_client, products,
                   price_results, keyword_result, triangulation_result,
                   request, assessment, earlier, clock, acos_decision,
                   stock_analysis>>

VolumeEvaluatorStep ==
    /\ Evaluating
    /\ keyword_result = NoneVal
    /\ keyword_result' =
          Some(VolumeEvaluation(keyword_analyzer, h10_client, ss_client, request))
    /\ UNCHANGED <<settings, price_analyzer, brand_analyzer, keyword_analyzer,
                   triangulation_analyzer, h10_client, ss_client, products,
                   price_results, brand_result, triangulation_result,
                   request, assessment, earlier, clock, acos_decision,
                   stock_analysis>>

TriangulationEvaluatorStep ==
    /\ Evaluating
    /\ triangulation_result = NoneVal
    /\ triangulation_result' =
          Some([rule |-> TriangulationAnalyze(triangulation_analyzer,
                                              request.product, h10_client,
                                              ss_client),
                confidence_scores |->
                    ConfidenceScores(triangulation_analyzer, request.product,
                                     h10_client, ss_client)])
    /\ UNCHANGED <<settings, price_analyzer, brand_analyzer, keyword_analyzer,
                   triangulation_analyzer, h10_client, ss_client, products,
                   price_results, brand_result, keyword_result,
                   request, assessment, earlier, clock, acos_decision,
                   stock_analysis>>

\* the aggregator waits for the four results; an exception of an evaluator is
\* what the call ends with
AggregateStep ==
    /\ assessment = NoneVal
    /\ \/ \E r \in EvaluatorOutcomes : r.raised
       \/ /\ price_results # <<>> /\ brand_result.some
          /\ keyword_result.some /\ triangulation_result.some
    /\ assessment' =
          IF \E r \in EvaluatorOutcomes : r.raised
          THEN Some(CHOOSE r \in EvaluatorOutcomes : r.raised)
          ELSE Some(Aggregate(settings, h10_client, ss_client, request, clock,
                              price_results[1], brand_result.v, keyword_result.v,
                              triangulation_result.v.rule))
    /\ clock' = clock + 1
    /\ UNCHANGED <<settings, price_analyzer, brand_analyzer, keyword_analyzer,
                   triangulation_analyzer, h10_client, ss_client, products,
                   price_results, brand_result, keyword_result,
                   triangulation_result, request, earlier, acos_decision,
                   stock_analysis>>

OrderNext ==
    \/ PriceEvaluatorStep
    \/ BrandEvaluatorStep
    \/ VolumeEvaluatorStep
    \/ TriangulationEvaluatorStep
    \/ AggregateStep

OrderSpec == OrderInit /\ [][OrderNext]_vars

----------------------------------------------------------------------------
(* Properties of the evaluators in any order (OrderSpec) *)

\* what analyze_product returns when it runs the evaluators in its own order
InProgramOrder ==
    AnalyzeProduct(settings, price_analyzer, brand_analyzer, keyword_analyzer,
                   triangulation_analyzer, h10_client, ss_client, request, 0)

\* each result that is there is the result of its evaluator on the inputs
\* alone, whatever ran before it
ResultsOfInputsAlone ==
    /\ price_results # <<>> =>
          price_results[1] = PriceBarrierAnalyze(price_analyzer, request.product)
    /\ brand_result.some =>
          brand_result.v = BrandDominanceAnalyze(brand_analyzer, ss_client)
    /\ keyword_result.some =>
          keyword_result.v
            = VolumeEvaluation(keyword_analyzer, h10_client, ss_client, request)
    /\ triangulation_result.some =>
          triangulation_result.v.rule
            = TriangulationAnalyze(triangulation_analyzer, request.product,
                                   h10_client, ss_client)

InputsNeverModified ==
    [][/\ request' = request /\ settings' = settings
       /\ h10_client' = h10_client /\ ss_client' = ss_client
       /\ price_analyzer' = price_analyzer /\ brand_analyzer' = brand_analyzer
       /\ keyword_analyzer' = keyword_analyzer
       /\ triangulation_analyzer' = triangulation_analyzer]_vars

----------------------------------------------------------------------------
(* Threshold selection of the price analyzer (PriceSpec) *)

\* the floor and the currency C23 states for a marketplace
ClaimedZone(marketplace) ==
    CASE marketplace \in {"US", "CA"} ->
            [threshold |-> price_analyzer.min_price_usd, currency |-> "USD"]
      [] marketplace \in {"UK", "DE", "FR", "IT", "ES", "JP"} ->
            [threshold |-> price_analyzer.min_price_eur, currency |-> "EUR"]

\* C23: for US and CA the price result carries the USD floor and currency
\* "USD", for UK, DE, FR, IT, ES and JP the EUR floor and currency "EUR";
\* threshold_value is the floor used, actual_value the price, and the band
\* of the result is the band of the price against that floor
C23_ThresholdByMarketplace ==
    \A i \in 1 .. Len(price_results) :
        ~price_results[i].raised =>
            LET product == products[i]
                zone    == ClaimedZone(product.marketplace)
                result  == price_results[i]
            IN  /\ result.threshold_value = zone.threshold
                /\ result.metadata.currency = zone.currency
                /\ result.metadata.marketplace = product.marketplace
                /\ result.actual_value = product.price
                /\ result.status = PriceBand(product.price, zone.threshold).status
                /\ result.score = PriceBand(product.price, zone.threshold).score

\* C23 witness: one analyzer with different floors has analysed a UK product
\* against the EUR floor and a CA product against the USD floor
C23_Witness ==
    /\ Len(price_results) = 2
    /\ price_analyzer.min_price_usd # price_analyzer.min_price_eur
    /\ products[1].marketplace = "UK" /\ products[2].marketplace = "CA"
    /\ ~price_results[1].raised /\ ~price_results[2].raised
    /\ price_results[1].metadata.currency = "EUR"
    /\ price_results[1].threshold_value = price_analyzer.min_price_eur
    /\ price_results[2].metadata.currency = "USD"
    /\ price_results[2].threshold_value = price_analyzer.min_price_usd

----------------------------------------------------------------------------
(* The recommendation narrative as text (decision/scoring.py,               *)
(* _generate_recommendation).  The leading pictograph of each template is   *)
(* written "*": it is one character and not a letter.                       *)

\* str(n) for a natural number n
IntText(n) ==
    LET Digits == <<"0", "1", "2", "3", "4", "5", "6", "7", "8", "9">>
        text[k \in 0 .. n] ==
            IF k < 10 THEN <<Digits[k + 1]>>
            ELSE Append(text[k \div 10], Digits[(k % 10) + 1])
    IN  text[n]

\* f"{score:.1f}" for a score that is not negative: the tenths of the score,
\* rounded to the nearest, a tie to the even one
FormatOneDecimal(score) ==
    LET t      == 10 * score.n
        q      == t \div score.d
        r      == t % score.d
        tenths == IF 2 * r > score.d \/ (2 * r = score.d /\ q % 2 = 1)
                  THEN q + 1 ELSE q
    IN  IntText(tenths \div 10) \o <<".">> \o IntText(tenths % 10)

\* the three pieces of the REJECT text, around the score and the count
RejectTemplate ==
    <<
    <<"*", " ", "R", "E", "J", "E", "C", "T", " ", "-", " ", "O", "v", "e",
      "r", "a", "l", "l", " ", "s", "c", "o", "r", "e", ":", " ">>,
    <<"/", "1", "0", "0", ".", " ", "T", "h", "i", "s", " ", "p", "r", "o",
      "d", "u", "c", "t", " ", "f", "a", "i", "l", "s", " ", "c", "r", "i",
      "t", "i", "c", "a", "l", " ", "c", "r", "i", "t", "e", "r", "i", "a",
      " ", "a", "n", "d", " ", "s", "h", "o", "u", "l", "d", " ", "N", "O",
      "T", " ", "b", "e", " ", "p", "u", "r", "s", "u", "e", "d", ".", " ",
      "K", "e", "y", " ", "i", "s", "s", "u", "e", "s", ":", " ">>,
    <<" ", "r", "i", "s", "k", " ", "f", "a", "c", "t", "o", "r", "s", " ",
      "i", "d", "e", "n", "t", "i", "f", "i", "e", "d", ".", " ", "R", "e",
      "c", "o", "m", "m", "e", "n", "d", " ", "s", "e", "a", "r", "c", "h",
      "i", "n", "g", " ", "f", "o", "r", " ", "a", "l", "t", "e", "r", "n",
      "a", "t", "i", "v", "e", " ", "p", "r", "o", "d", "u", "c", "t", "s",
      ".">>
    >>

\* the three pieces of the CAUTION text, around the score and the count
CautionTemplate ==
    <<
    <<"*", " ", "C", "A", "U", "T", "I", "O", "N", " ", "-", " ", "O", "v",
      "e", "r", "a", "l", "l", " ", "s", "c", "o", "r", "e", ":", " ">>,
    <<"/", "1", "0", "0", ".", " ", "T", "h", "i", "s", " ", "p", "r", "o",
      "d", "u", "c", "t", " ", "s", "h", "o", "w", "s", " ", "p", "o", "t",
      "e", "n", "t", "i", "a", "l", " ", "b", "u", "t", " ", "h", "a", "s",
      " ">>,
    <<" ", "c", "o", "n", "c", "e", "r", "n", "(", "s", ")", ".", " ", "R",
      "e", "q", "u", "i", "r", "e", "s", " ", "d", "e", "e", "p", "e", "r",
      " ", "m", "a", "n", "u", "a", "l", " ", "a", "n", "a", "l", "y", "s",
      "i", "s", " ", "a", "n", "d", " ", "v", "a", "l", "i", "d", "a", "t",
      "i", "o", "n", ".", " ", "C", "o", "n", "s", "i", "d", "e", "r", " ",
      "d", "i", "f", "f", "e", "r", "e", "n", "t", "i", "a", "t", "i", "o",
      "n", " ", "s", "t", "r", "a", "t", "e", "g", "y", " ", "b", "e", "f",
      "o", "r", "e", " ", "p", "r", "o", "c", "e", "e", "d", "i", "n", "g",
      ".">>
    >>

\* the three pieces of the APPROVE text, around the score and the count
ApproveTemplate ==
    <<
    <<"*", " ", "A", "P", "P", "R", "O", "V", "E", " ", "-", " ", "O", "v",
      "e", "r", "a", "l", "l", " ", "s", "c", "o", "r", "e", ":", " ">>,
    <<"/", "1", "0", "0", ".", " ", "T", "h", "i", "s", " ", "p", "r", "o",
      "d", "u", "c", "t", " ", "m", "e", "e", "t", "s", " ", "a", "l", "l",
      " ", "c", "r", "i", "t", "e", "r", "i", "a", " ", "a", "n", "d", " ",
      "s", "h", "o", "w", "s", " ", "s", "t", "r", "o", "n", "g", " ", "p",
      "o", "t", "e", "n", "t", "i", "a", "l", ".", " ">>,
    <<" ", "p", "o", "s", "i", "t", "i", "v", "e", " ", "f", "a", "c", "t",
      "o", "r", "s", " ", "i", "d", "e", "n", "t", "i", "f", "i", "e", "d",
      ".", " ", "P", "r", "o", "c", "e", "e", "d", " ", "w", "i", "t", "h",
      " ", "p", "r", "o", "d", "u", "c", "t", " ", "d", "e", "v", "e", "l",
      "o", "p", "m", "e", "n", "t", " ", "a", "n", "d", " ", "s", "u", "p",
      "p", "l", "i", "e", "r", " ", "s", "o", "u", "r", "c", "i", "n", "g",
      ".">>
    >>

\* the text _generate_recommendation returns for a recommendation
RecommendationText(recommendation) ==
    LET score == FormatOneDecimal(recommendation.score)
        count == IntText(recommendation.count)
    IN  CASE recommendation.verdict = "REJECT" ->
                RejectTemplate[1] \o score \o RejectTemplate[2] \o count \o RejectTemplate[3]
          [] recommendation.verdict = "CAUTION" ->
                CautionTemplate[1] \o score \o CautionTemplate[2] \o count
                  \o CautionTemplate[3]
          [] recommendation.verdict = "APPROVE" ->
                ApproveTemplate[1] \o score \o ApproveTemplate[2] \o count
                  \o ApproveTemplate[3]

StrPrice == <<"p", "r", "i", "c", "e">>

\* C24: when the final decision is RED because the price kill switch fired
\* (the price result is RED), the recommendation text, lowercased, contains
\* "price"
C24_RejectionMentionsPrice ==
    (/\ assessment.some /\ ~assessment.v.raised
     /\ assessment.v.final_decision = RED
     /\ assessment.v.price_barrier_check.status = RED)
    => StrContains(StrLower(RecommendationText(assessment.v.recommendation)),
                   StrPrice)

\* the text of every assessment opens with its verdict and quotes the score
\* and the count; only the text of a rejection by price is at issue
RecommendationTextQuotesVerdict ==
    (assessment.some /\ ~assessment.v.raised) =>
        LET text == RecommendationText(assessment.v.recommendation)
        IN  /\ (assessment.v.final_decision = RED)
                  = StrContains(text, <<"R", "E", "J", "E", "C", "T">>)
            /\ (assessment.v.final_decision = GREEN)
                  = StrContains(text, <<"A", "P", "P", "R", "O", "V", "E">>)
            /\ StrContains(text, FormatOneDecimal(assessment.v.overall_score))
            /\ ~StrContains(StrLower(text), StrPrice)

----------------------------------------------------------------------------
(* decision/acos/manager.py *)

DecisionAction ==
    {"wait", "decrease_bid_20", "decrease_bid_40", "increase_bid_15",
     "increase_bid_20", "pause_keyword", "negative_keyword",
     "optimize_listing", "adjust_rpc", "scale_up", "no_action"}

\* the enumeration Confidence of decision/acos/manager.py
DecisionConfidence == {"low", "medium", "high"}

\* the class attributes of ACoSDecisionTree
ACoSDecisionTree ==
    [MIN_CLICKS_KEYWORD |-> 20, MIN_CLICKS_RELIABLE |-> 30,
     CATEGORY_AVG_CVR |-> RInt(10), EXCELLENT_ACOS |-> RInt(15),
     GOOD_ACOS |-> RInt(30), HIGH_ACOS |-> RInt(50),
     UNPROFITABLE_ACOS |-> RInt(100)]

\* ACoSDecision: the action and the confidence (reason and details are text
\* for the reader and decide nothing)
ACoSDecision(action, confidence) == [action |-> action, confidence |-> confidence]

\* ACoSDecisionTree._handle_unprofitable
HandleUnprofitable(clicks, cvr) ==
    IF clicks < ACoSDecisionTree.MIN_CLICKS_KEYWORD
    THEN ACoSDecision("wait", "low")
    ELSE IF RLt(RInt(10), cvr)
    THEN ACoSDecision("decrease_bid_40", "high")
    ELSE ACoSDecision("negative_keyword", "high")

\* mutant of HandleHighAcos: the keyword's click minimum (20) for the
\* reliable one (30)
HandleHighAcos_KeywordMinimum(clicks, cvr, category_avg_cvr) ==
    IF clicks < ACoSDecisionTree.MIN_CLICKS_KEYWORD
    THEN ACoSDecision("wait", "low")
    ELSE IF RGe(cvr, category_avg_cvr)
    THEN ACoSDecision("adjust_rpc", "high")
    ELSE ACoSDecision("optimize_listing", "high")

\* ACoSDecisionTree._handle_high_acos
HandleHighAcos(clicks, cvr, category_avg_cvr) ==
    IF clicks < ACoSDecisionTree.MIN_CLICKS_RELIABLE
    THEN ACoSDecision("wait", "low")
    ELSE IF RGe(cvr, category_avg_cvr)
    THEN ACoSDecision("adjust_rpc", "high")
    ELSE ACoSDecision("optimize_listing", "high")

\* ACoSDecisionTree._handle_above_target
HandleAboveTarget(clicks, target_acos, acos) ==
    ACoSDecision("adjust_rpc", IF clicks < 50 THEN "medium" ELSE "high")

\* ACoSDecisionTree._handle_near_target: abs(acos - target_acos) <= 5
HandleNearTarget(acos, target_acos) ==
    IF /\ RLe(RSub(acos, target_acos), RInt(5))
       /\ RLe(RSub(target_acos, acos), RInt(5))
    THEN ACoSDecision("no_action", "high")
    ELSE ACoSDecision("adjust_rpc", "medium")

\* ACoSDecisionTree._handle_excellent
HandleExcellent(acos, target_acos) ==
    IF RGe(RSub(target_acos, acos), RInt(10))
    THEN ACoSDecision("increase_bid_20", "high")
    ELSE ACoSDecision("increase_bid_15", "medium")

\* ACoSDecisionTree.evaluate; target_acos and category_avg_cvr are Optional
Evaluate(acos, clicks, cvr, target_acos, category_avg_cvr) ==
    LET target  == IF target_acos = NoneVal THEN RInt(25) ELSE target_acos.v
        average == IF category_avg_cvr = NoneVal
                   THEN ACoSDecisionTree.CATEGORY_AVG_CVR
                   ELSE category_avg_cvr.v
    IN  IF RLt(ACoSDecisionTree.UNPROFITABLE_ACOS, acos)
        THEN HandleUnprofitable(clicks, cvr)
        ELSE IF RGe(acos, ACoSDecisionTree.HIGH_ACOS)
        THEN HandleHighAcos(clicks, cvr, average)
        ELSE IF RGe(acos, ACoSDecisionTree.GOOD_ACOS)
        THEN HandleAboveTarget(clicks, target, acos)
        ELSE IF RGe(acos, ACoSDecisionTree.EXCELLENT_ACOS)
        THEN HandleNearTarget(acos, target)
        ELSE HandleExcellent(acos, target)

----------------------------------------------------------------------------
(* Specification of the ACoS decision tree: one call of evaluate *)

MaxClickStep == 6

\* the arguments of evaluate: ACoS values on and beside the edges 15, 30, 50
\* and 100, clicks on a grid of tens and beside the minimums 20, 30 and 50,
\* conversion rates on and beside 10 and the category averages
AcosRequests ==
    [acos : {RInt(0), RInt(10), Rat(149, 10), RInt(15), RInt(19), RInt(25),
             RInt(30), RInt(40), Rat(499, 10), RInt(50), RInt(67), RInt(100),
             Rat(1001, 10), RInt(150)},
     clicks : {10 * k : k \in 0 .. MaxClickStep} \cup {19, 25, 29, 49},
     cvr : {RInt(0), RInt(8), Rat(99, 10), RInt(10), Rat(101, 10), RInt(12),
            RInt(15)},
     target_acos : {NoneVal, Some(RInt(20)), Some(RInt(40))},
     category_avg_cvr : {NoneVal, Some(RInt(8)), Some(RInt(12))}]

AcosInit ==
    /\ settings = SettingsInit(<<>>)
    /\ EngineConstructed
    /\ h10_client = NoneVal
    /\ ss_client = NoneVal
    /\ products = <<>>
    /\ request \in AcosRequests
    /\ NoResults

EvaluateStep ==
    /\ acos_decision = NoneVal
    /\ acos_decision' =
          Some(Evaluate(request.acos, request.clicks, request.cvr,
                        request.target_acos, request.category_avg_cvr))
    /\ UNCHANGED <<settings, price_analyzer, brand_analyzer, keyword_analyzer,
                   triangulation_analyzer, h10_client, ss_client, products,
                   price_results, brand_result, keyword_result,
                   triangulation_result, request, assessment, earlier, clock,
                   stock_analysis>>

AcosNext == EvaluateStep

AcosSpec == AcosInit /\ [][AcosNext]_vars

----------------------------------------------------------------------------
(* Properties of the ACoS decision tree (AcosSpec) *)

\* the category average evaluate compares with: 10 unless one is given
CategoryAverage ==
    IF request.category_avg_cvr = NoneVal THEN RInt(10)
    ELSE request.category_avg_cvr.v

\* the routing C25 states for ACoS above 100 and for ACoS from 50 to 100;
\* NoneVal where it states no action
ClaimedRouting ==
    CASE RLt(RInt(100), request.acos) /\ request.clicks < 20 ->
            Some(ACoSDecision("wait", "low"))
      [] RLt(RInt(100), request.acos) /\ request.clicks >= 20
           /\ RLt(RInt(10), request.cvr) ->
            Some(ACoSDecision("decrease_bid_40", "high"))
      [] RLt(RInt(100), request.acos) /\ request.clicks >= 20
           /\ ~RLt(RInt(10), request.cvr) ->
            Some(ACoSDecision("negative_keyword", "high"))
      [] RLe(RInt(50), request.acos) /\ RLe(request.acos, RInt(100))
           /\ request.clicks < 30 ->
            Some(ACoSDecision("wait", "low"))
      [] RLe(RInt(50), request.acos) /\ RLe(request.acos, RInt(100))
           /\ request.clicks >= 30 /\ RLe(CategoryAverage, request.cvr) ->
            Some(ACoSDecision("adjust_rpc", "high"))
      [] RLe(RInt(50), request.acos) /\ RLe(request.acos, RInt(100))
           /\ request.clicks >= 30 /\ RLt(request.cvr, CategoryAverage) ->
            Some(ACoSDecision("optimize_listing", "high"))
      [] OTHER -> NoneVal

C26_DocstringExample ==
    (/\ acos_decision.some
     /\ request.acos = RInt(67) /\ request.clicks = 25
     /\ request.cvr = RInt(8)
     /\ request.target_acos = NoneVal /\ request.category_avg_cvr = NoneVal)
    => acos_decision.v.action = "decrease_bid_40"

\* what evaluate answers for the documented call: WAIT, with LOW confidence
DocstringExampleWaits ==
    (/\ acos_decision.some
     /\ request.acos = RInt(67) /\ request.clicks = 25
     /\ request.cvr = RInt(8)
     /\ request.target_acos = NoneVal /\ request.category_avg_cvr = NoneVal)
    => acos_decision.v = ACoSDecision("wait", "low")

----------------------------------------------------------------------------
(* crisis/stockout/protocol.py.  A datetime is a number of hours, and       *)
(* datetime.now() is the clock, read as one instant within a call.          *)

\* the class attributes of StockoutProtocol
StockoutProtocol ==
    [HEALTHY_STOCK_WEEKS |-> 4, WARNING_STOCK_WEEKS |-> 2,
     CRITICAL_STOCK_WEEKS |-> 1]

\* StockoutProtocol._handle_out_of_stock
HandleOutOfStock(now) ==
    [current_stock |-> 0, daily_velocity |-> RInt(0),
     days_remaining |-> RInt(0), stock_level |-> "out_of_stock",
     recommended_actions |->
        <<[priority |-> "immediate", action |-> "PAUSE ALL PPC CAMPAIGNS",
           deadline |-> Some(RInt(now))],
          [priority |-> "immediate",
           action |-> "Update listing with restock date",
           deadline |-> Some(RInt(now))],
          [priority |-> "immediate",
           action |-> "Expedite emergency stock shipment",
           deadline |-> Some(RInt(now + 24))]>>,
     estimated_stockout_date |-> Some(RInt(now))]

\* StockoutProtocol._generate_actions
GenerateActions(stock_level, days_remaining, lead_time_days, now) ==
    IF stock_level = "emergency"
    THEN <<[priority |-> "immediate", action |-> "PAUSE ALL PPC CAMPAIGNS",
            deadline |-> Some(RInt(now))],
           [priority |-> "immediate",
            action |-> "Expedite air freight shipment",
            deadline |-> Some(RInt(now + 24))],
           [priority |-> "immediate", action |-> "Activate FBM backup plan",
            deadline |-> Some(RInt(now + 48))],
           [priority |-> "short_term",
            action |-> "Reduce pricing or promotions",
            deadline |-> Some(RInt(now + 24))]>>
    ELSE IF stock_level = "critical"
    THEN <<[priority |-> "immediate",
            action |-> "Place emergency stock order",
            deadline |-> Some(RInt(now + 24))],
           [priority |-> "short_term", action |-> "Reduce PPC budgets by 50%",
            deadline |-> Some(RInt(now + 24))],
           [priority |-> "short_term", action |-> "Prepare FBM backup",
            deadline |-> Some(RInt(now + 72))],
           [priority |-> "short_term",
            action |-> "Contact supplier for expedited delivery",
            deadline |-> Some(RInt(now + 24))]>>
    ELSE IF stock_level = "warning"
    THEN <<[priority |-> "short_term",
            action |-> "Place regular stock reorder",
            deadline |-> Some(RInt(now + 72))],
           [priority |-> "short_term",
            action |-> "Monitor daily sales velocity",
            deadline |-> Some(RInt(now + 24))],
           [priority |-> "medium_term",
            action |-> "Review reorder point alerts",
            deadline |-> Some(RInt(now + 168))]>>
    ELSE <<[priority |-> "medium_term",
            action |-> "Continue normal operations", deadline |-> NoneVal],
           [priority |-> "medium_term",
            action |-> "Weekly stock level monitoring",
            deadline |-> NoneVal]>>

\* StockoutProtocol.analyze_stock_situation; float("inf") is written 1/0
AnalyzeStockSituation(current_stock, daily_velocity, lead_time_days, now) ==
    IF current_stock = 0 THEN HandleOutOfStock(now)
    ELSE IF RIsZero(daily_velocity)
    THEN [current_stock |-> current_stock, daily_velocity |-> RInt(0),
          days_remaining |-> [n |-> 1, d |-> 0], stock_level |-> "healthy",
          recommended_actions |-> <<>>, estimated_stockout_date |-> NoneVal]
    ELSE LET days_remaining  == RDiv(RInt(current_stock), daily_velocity)
             weeks_remaining == RDiv(days_remaining, RInt(7))
             stock_level ==
                 IF RLt(weeks_remaining,
                        RInt(StockoutProtocol.CRITICAL_STOCK_WEEKS))
                 THEN "emergency"
                 ELSE IF RLt(weeks_remaining,
                             RInt(StockoutProtocol.WARNING_STOCK_WEEKS))
                 THEN "critical"
                 ELSE IF RLt(weeks_remaining,
                             RInt(StockoutProtocol.HEALTHY_STOCK_WEEKS))
                 THEN "warning"
                 ELSE "healthy"
             stockout_date ==
                 RAdd(RInt(now), RMul(RInt(24), days_remaining))
         IN  [current_stock |-> current_stock,
              daily_velocity |-> daily_velocity,
              days_remaining |-> days_remaining,
              stock_level |-> stock_level,
              recommended_actions |->
                  GenerateActions(stock_level, days_remaining, lead_time_days,
                                  now),
              estimated_stockout_date |-> Some(stockout_date)]

----------------------------------------------------------------------------
(* Specification of the stockout protocol: one call of                      *)
(* analyze_stock_situation                                                  *)

MaxStockStep == 6

\* the arguments: stocks on a grid up to 300 units and on and beside the
\* one, two and four weeks of a velocity of 5 a day (35, 70, 140 units)
StockRequests ==
    [current_stock : {50 * k : k \in 0 .. MaxStockStep}
                       \cup {34, 35, 69, 70, 139, 140},
     daily_velocity : {RInt(0), Rat(5, 2), RInt(5), RInt(10), RInt(20)},
     lead_time_days : {14, 30}]

StockoutInit ==
    /\ settings = SettingsInit(<<>>)
    /\ EngineConstructed
    /\ h10_client = NoneVal
    /\ ss_client = NoneVal
    /\ products = <<>>
    /\ request \in StockRequests
    /\ NoResults

AnalyzeStockStep ==
    /\ stock_analysis = NoneVal
    /\ stock_analysis' =
          Some(AnalyzeStockSituation(request.current_stock,
                                     request.daily_velocity,
                                     request.lead_time_days, clock))
    /\ clock' = clock + 1
    /\ UNCHANGED <<settings, price_analyzer, brand_analyzer, keyword_analyzer,
                   triangulation_analyzer, h10_client, ss_client, products,
                   price_results, brand_result, keyword_result,
                   triangulation_result, request, assessment, earlier,
                   acos_decision>>

StockoutNext == AnalyzeStockStep

StockoutSpec == StockoutInit /\ [][StockoutNext]_vars

----------------------------------------------------------------------------
(* Properties of the stockout protocol (StockoutSpec) *)

\* the call the docstring of analyze_stock_situation shows
DocstringStock ==
    /\ stock_analysis.some
    /\ request.current_stock = 100
    /\ request.daily_velocity = RInt(5)
    /\ request.lead_time_days = 30

\* C27: analyze_stock_situation(current_stock=100, daily_velocity=5.0,
\* lead_time_days=30) returns an analysis whose stock_level is CRITICAL
C27_DocstringExample ==
    DocstringStock => stock_analysis.v.stock_level = "critical"

\* what the call answers: 20 days of stock, under four weeks and not under
\* two, so WARNING with its three actions
DocstringStockIsWarning ==
    DocstringStock =>
        /\ stock_analysis.v.days_remaining = RInt(20)
        /\ stock_analysis.v.stock_level = "warning"
        /\ Len(stock_analysis.v.recommended_actions) = 3

\* the level follows the weeks of stock left: under one week EMERGENCY, under
\* two CRITICAL, under four WARNING, else HEALTHY
LevelFollowsWeeks ==
    (/\ stock_analysis.some /\ request.current_stock # 0
     /\ ~RIsZero(request.daily_velocity)) =>
        LET days == RDiv(RInt(request.current_stock), request.daily_velocity)
        IN  stock_analysis.v.stock_level
              = CASE RLt(days, RInt(7)) -> "emergency"
                  [] RLe(RInt(7), days) /\ RLt(days, RInt(14)) -> "critical"
                  [] RLe(RInt(14), days) /\ RLt(days, RInt(28)) -> "warning"
                  [] OTHER -> "healthy"

----------------------------------------------------------------------------
(* Scores under the default configuration (Spec) *)

\* the configuration of an environment that sets nothing: weights 0.25, 0.25,
\* 0.20, 0.10, 0.10, 0.10 and the bands 70 and 40
DefaultConfiguration == settings = SettingsInit(<<>>)

\* the verdict of the score bands alone, the kill switches left out
ScoreBandVerdict(a) ==
    IF RGe(a.overall_score, settings.green_threshold) THEN GREEN
    ELSE IF RGe(a.overall_score, settings.yellow_threshold) THEN YELLOW
    ELSE RED

\* C28: under the default configuration, in every assessment where a kill
\* switch fires (price, dominance or volume RED) overall_score is at most
\* 67.5, strictly below green_threshold, so that the override to RED never
\* replaces a GREEN of the score bands
C28_KillSwitchBelowGreen ==
    (Returned /\ DefaultConfiguration /\ KillSwitch(assessment.v)) =>
        /\ RLe(assessment.v.overall_score, Rat(135, 2))
        /\ RLt(assessment.v.overall_score, settings.green_threshold)
        /\ ScoreBandVerdict(assessment.v) # GREEN
        /\ assessment.v.final_decision = RED

\* C28 witness: the bound is met: a kill switch fired, on the volume, in an
\* assessment of the default configuration whose overall_score is 67.5
C28_Witness ==
    /\ Returned /\ DefaultConfiguration
    /\ assessment.v.keyword_volume_check.status = RED
    /\ assessment.v.overall_score = Rat(135, 2)
    /\ ScoreBandVerdict(assessment.v) = YELLOW
    /\ assessment.v.final_decision = RED

\* the engine has no data-provider collaborator and the product of the
\* request carries no sales estimate
NothingToTriangulate ==
    /\ h10_client = NoneVal /\ ss_client = NoneVal
    /\ request.product.h10_monthly_sales = NoneVal
    /\ request.product.ss_monthly_sales = NoneVal
    /\ request.product.keepa_bsr_drops_30d = NoneVal

----------------------------------------------------------------------------
(* Order of the volume scores (VolumeSpec) *)

\* two volumes were analysed by an analyzer with a positive minimum, the
\* first not above the second
TwoVolumesInOrder ==
    /\ earlier # <<>> /\ VolumeReturned /\ ~earlier[1].result.raised
    /\ keyword_analyzer.min_volume > 0
    /\ earlier[1].keyword_data.exact_search_volume
         <= request.keyword_data.exact_search_volume

\* C29: for a fixed minimum m > 0 and volumes v1 <= v2 the score of v1 is at
\* most the score of v2, also across the boundary v = 5m
C29_VolumeMonotone ==
    TwoVolumesInOrder => RLe(earlier[1].result.score, keyword_result.v.score)

\* C29, amended: for a fixed minimum m > 0 and volumes v1 <= v2, the score of
\* v1 is at most the score of v2 when v2 < 5m; from 5m on the score is 90
\* whatever the volume; across the boundary the score of v1 exceeds the 90 of
\* v2 exactly when v1 > 4m, and stays under 95
C29_VolumeMonotoneAmended ==
    TwoVolumesInOrder =>
        LET v1 == earlier[1].keyword_data.exact_search_volume
            v2 == request.keyword_data.exact_search_volume
            m  == keyword_analyzer.min_volume
            s1 == earlier[1].result.score
            s2 == keyword_result.v.score
        IN  /\ v2 < 5 * m => RLe(s1, s2)
            /\ v2 >= 5 * m => s2 = RInt(90)
            /\ (v1 < 5 * m /\ v2 >= 5 * m) =>
                  /\ RLt(s1, RInt(95))
                  /\ RLt(s2, s1) = (v1 > 4 * m)

\* C29 witness: with the minimum 3000, the volume 14999 was analysed before
\* the volume 15000 and scored more than its 90
C29_Witness ==
    /\ TwoVolumesInOrder
    /\ keyword_analyzer.min_volume = 3000
    /\ earlier[1].keyword_data.exact_search_volume = 14999
    /\ request.keyword_data.exact_search_volume = 15000
    /\ RLt(RInt(90), earlier[1].result.score)
    /\ keyword_result.v.score = RInt(90)

============================================================================
